---- MODULE Spec2Model ----
(***************************************************************************)
(* Verification model of askscience/cruise.                                *)
(*                                                                         *)
(* Part 1: the tag-aware stream splitter                                   *)
(*   MarkdownEditor.append_ai_stream_content (normal mode) and             *)
(*   SidebarWidget.process_ai_chunk_study_mode (study mode), with their    *)
(*   end-of-stream flushes.                                                *)
(* Part 2: the lane packer                                                 *)
(*   WaveformWidget._distribute_annotations_to_zones and                   *)
(*   get_dynamic_layout.                                                   *)
(*                                                                         *)
(* Text is a sequence of one-character strings.  Python's 0-based find()   *)
(* returning -1 becomes a 1-based index with 0 for "not found".            *)
(***************************************************************************)
EXTENDS Integers, Sequences, FiniteSets, TLC

VARIABLES
    \* ---- splitter: the streaming session ----
    stream,                 \* the whole response the model server will send
    pos,                    \* number of characters of it already delivered
    study_mode,             \* SidebarWidget.study_mode
    pc,                     \* "streaming" | "done"
    \* ---- splitter: StreamState (same fields in both widgets) ----
    ai_stream_buffer,       \* _ai_stream_buffer
    inside_think_tags,      \* _inside_think_tags
    main_content_buffer,    \* _main_content_buffer
    has_thinking_content,   \* _has_thinking_content
    \* ---- splitter: the two sinks (concatenation of all emissions) ----
    answer,                 \* _append_to_main_editor / _append_to_chat_message
    thinking,               \* append_thinking_content / _append_thinking_content
    \* ---- splitter: history of where the chunk boundaries fell ----
    split_open,             \* a boundary fell inside a "<think>" literal
    split_close,            \* a boundary fell inside a "</think>" literal
    blank_chunk,            \* a chunk of only whitespace was delivered
    \* ---- study mode: the conversation ----
    chat_history,           \* the assistant messages of SidebarWidget.chat_history,
                            \* which are also saved with db.save_chat_message
    \* ---- session: the streaming thread, the update queue, the UI thread ----
    pending_updates,        \* SidebarWidget.pending_updates
    stop_event,             \* OllamaClient.stop_event
    net_pc,                 \* the streaming thread: "idle" | "loop" | "chunk" | "error" | "finally"
    net_chunk,              \* the chunk it is about to hand to on_chunk
    ui_pc,                  \* process_pending_updates: "idle" | "loop" | "clear"
    ui_i,                   \* the item its for-loop is at
    session,                \* number of responses requested so far
    stopped,                \* history: the user has stopped this response
    late,                   \* history: a chunk was processed after the stop
    failed,                 \* history: the request of this response failed
    err_routed,             \* history: the error chunk went through the splitter
    chunks_done,            \* history: chunks of this response processed so far
    \* ---- OllamaClient with the threads of all its requests ----
    threads,                \* threads[k]: the thread of request k, a record
                            \* [pc, pos, stopped]; pc is the thread's position,
                            \* pos the lines read, stopped: stop() was called
                            \* while it ran
    calls,                  \* history: the callback calls, [req, cb] in order
    \* ---- TranscriptionService.load_model_with_retry ----
    load_pc,                \* "idle" | "loading" (a ModelLoadingThread runs) | "done"
    load_attempt,           \* the attempt argument of the running attempt_load
    load_log,               \* history: what each attempt ended with
    completions,            \* history: the success flags completion_callback got
    \* ---- SidebarManager and the SidebarWidgets it has created ----
    active_sidebars,        \* dict: sentence -> index of its widget in sidebars
    sidebars,               \* every SidebarWidget created, in order: [sentence,
                            \* update_timer (running), stop_event, pending_updates
                            \* (number queued), thread] and the history fields
                            \* cleaned (cleanup() has run) and processed_closed
                            \* (updates were processed after it left the dict)
    manager_visible,        \* SidebarManager.show() / hide()
    \* ---- NotesDatabase: the tables of the SQLite file ----
    db_projects,            \* the ids in table projects
    db_sentences,           \* table sentences: rows [id, sentence_text, project_id]
                            \* (project_id 0 stands for NULL)
    db_notes,               \* table notes: rows [id, sentence_id, note_text]
    db_seq,                 \* AUTOINCREMENT: the last id given in [sentences, notes]
    db_last,                \* history: the latest call and, for save_note, its
                            \* arguments and the note rows of the sentence text before
    db_calls,               \* history: number of calls made
    \* ---- transcription: TranscriptionThread ----
    whisper_segments,       \* whisper_result['segments']
    sentence_segments,      \* the 'segments' of what _create_sentence_segments returns
    trans_pc,               \* "ready" | "done"
    \* ---- lane packer: AudioWaveformWidget ----
    annotations,            \* self.annotations (the transcription segments)
    audio_duration,         \* self.audio_duration
    widget_size,            \* <<width, height>> of self.rect()
    layout_cache,           \* self.layout_cache
    last_rect_size,         \* self.last_rect_size
    zone_assignments,       \* what the latest _distribute_annotations_to_zones returned
    call_rect,              \* the rect of that call (NoRect before the first)
    revisit                 \* history: that call's rect size had been laid out
                            \* before, and another size in between

laneVars == <<annotations, audio_duration, widget_size, layout_cache, last_rect_size,
              zone_assignments, call_rect, revisit>>

transVars == <<whisper_segments, sentence_segments, trans_pc>>

clientVars == <<threads, calls>>

\* the parts of the program that the splitter, the lane packer and the
\* transcription never touch
loadVars == <<load_pc, load_attempt, load_log, completions>>

dbVars == <<db_projects, db_sentences, db_notes, db_seq, db_last, db_calls>>

managerVars == <<active_sidebars, sidebars, manager_visible>>

auxVars == <<clientVars, loadVars, dbVars, managerVars>>

sessVars == <<pending_updates, stop_event, net_pc, net_chunk, ui_pc, ui_i, session,
              stopped, late, failed, err_routed, chunks_done>>

splitVars == <<stream, pos, study_mode, pc, ai_stream_buffer, inside_think_tags,
               main_content_buffer, has_thinking_content, answer, thinking,
               split_open, split_close, blank_chunk, chat_history, sessVars>>

----------------------------------------------------------------------------
(* Text helpers *)

OpenTag  == <<"<", "t", "h", "i", "n", "k", ">">>
CloseTag == <<"<", "/", "t", "h", "i", "n", "k", ">">>

\* what str.strip() removes
Whitespace == {" ", "\n"}

\* the character class of the regex [\s\n.!?;,]+
BoundaryChars == Whitespace \cup {".", "!", "?", ";", ","}

\* s[i:] of Python, with i 0-based: drop the first i characters
Drop(s, i) == SubSeq(s, i + 1, Len(s))

\* s[:i] of Python
Take(s, i) == SubSeq(s, 1, i)

\* bool(s.strip())
NonBlank(s) == \E i \in 1..Len(s) : s[i] \notin Whitespace

\* s.startswith(pat)
StartsWith(s, pat) == Len(s) >= Len(pat) /\ Take(s, Len(pat)) = pat

\* s.find(pat): 1-based position of the first occurrence, 0 when there is none
FindSub(s, pat) ==
    LET hits == {i \in 1..Len(s) : StartsWith(Drop(s, i - 1), pat)}
    IN  IF hits = {} THEN 0 ELSE CHOOSE i \in hits : \A j \in hits : i <= j

\* matches[-1].end() of re.finditer(r'[\s\n.!?;,]+', s): the last boundary
\* character's 1-based position, 0 when nothing matches
LastBoundary(s) ==
    LET hits == {i \in 1..Len(s) : s[i] \in BoundaryChars}
    IN  IF hits = {} THEN 0 ELSE CHOOSE i \in hits : \A j \in hits : j <= i

----------------------------------------------------------------------------
(* The splitter.  A StreamState-with-sinks record st has the fields          *)
(* buf, inside, main, has, ans, thk.                                         *)

\* "elif len(self._main_content_buffer) > 100"
FlushCap == 100

\* len(remaining) of '<think>', used in "len(remaining) >= 7"/"remaining[7:]"
OpenLen == 7

\* "think_end + 8"
CloseLen == 8

\* _flush_main_content_buffer(force_partial): returns the record after the flush
FlushMain(st, force_partial) ==
    IF st.main = <<>> THEN st
    ELSE IF force_partial
         THEN [st EXCEPT !.ans = st.ans \o st.main, !.main = <<>>]
    ELSE LET last_boundary == LastBoundary(st.main)
         IN  IF last_boundary > 0
             THEN [st EXCEPT !.ans  = st.ans \o Take(st.main, last_boundary),
                             !.main = Drop(st.main, last_boundary)]
             ELSE IF Len(st.main) > FlushCap
                  THEN [st EXCEPT !.ans = st.ans \o st.main, !.main = <<>>]
                  ELSE st

\* a splitter that puts the text before '<' in front of the held-back text
FlushBeforeLtSwapped(st, before_lt) ==
    IF NonBlank(before_lt)
    THEN FlushMain([st EXCEPT !.main = before_lt \o st.main], TRUE)
    ELSE st

\* "if before_lt.strip(): main += before_lt; flush()"
FlushBeforeLt(st, before_lt) ==
    IF NonBlank(before_lt)
    THEN FlushMain([st EXCEPT !.main = st.main \o before_lt], TRUE)
    ELSE st

\* "len(remaining) >= 7 and remaining.startswith('<think>')"
IsThinkTag(remaining) == Len(remaining) >= OpenLen /\ StartsWith(remaining, OpenTag)

\* a splitter that never waits for the rest of a possible tag
TagUndecidedNever(remaining) == FALSE

\* "elif len(remaining) < 7"
TagUndecided(remaining) == Len(remaining) < OpenLen

\* the buffer kept while the tag is undecided:
\* "if before_lt: self._ai_stream_buffer = remaining"
HeldBuffer(st, before_lt, remaining) ==
    IF before_lt # <<>> THEN remaining ELSE st.buf

\* a splitter that keeps back thinking text in which a '<' occurs
ThinkingEmitNoLt(text) ==
    IF NonBlank(text) /\ FindSub(text, <<"<">>) = 0 THEN text ELSE <<>>

\* the text handed to the thinking sink for a buffer that has no closing tag:
\* "if self._ai_stream_buffer.strip(): append_thinking_content(buffer)"
ThinkingEmit(text) == IF NonBlank(text) THEN text ELSE <<>>

\* buffer.find('</think>')
FindClose(buf) == FindSub(buf, CloseTag)

\* a splitter that skips a whole tag's length after a '<' that is no tag
AfterPlainLtSkipTag(remaining) == Drop(remaining, OpenLen)

\* "self._ai_stream_buffer = remaining[1:]" after a '<' that is no tag
AfterPlainLt(remaining) == Drop(remaining, 1)

\* One pass of "while True:"; cont = TRUE stands for "continue", FALSE for "break"
LoopBody(st) ==
    IF ~st.inside
    THEN LET lt_pos == FindSub(st.buf, <<"<">>)
         IN  IF lt_pos # 0
             THEN LET before_lt == Take(st.buf, lt_pos - 1)
                      s1        == FlushBeforeLt(st, before_lt)
                      remaining == Drop(st.buf, lt_pos - 1)
                  IN  IF IsThinkTag(remaining)
                      THEN [st   |-> [s1 EXCEPT !.has = TRUE,
                                                !.buf = Drop(remaining, OpenLen),
                                                !.inside = TRUE],
                            cont |-> TRUE]
                      ELSE IF TagUndecided(remaining)
                      THEN [st   |-> [s1 EXCEPT !.buf = HeldBuffer(st, before_lt, remaining)],
                            cont |-> FALSE]
                      ELSE [st   |-> [s1 EXCEPT !.main = s1.main \o <<"<">>,
                                                !.buf  = AfterPlainLt(remaining)],
                            cont |-> TRUE]
             ELSE IF st.buf # <<>>
                  THEN [st   |-> FlushMain([st EXCEPT !.main = st.main \o st.buf,
                                                      !.buf  = <<>>], FALSE),
                        cont |-> FALSE]
                  ELSE [st |-> st, cont |-> FALSE]
    ELSE LET think_end == FindClose(st.buf)
         IN  IF think_end # 0
             THEN LET thinking_content == Take(st.buf, think_end - 1)
                  IN  [st   |-> [st EXCEPT !.thk = st.thk \o ThinkingEmit(thinking_content),
                                           !.buf = Drop(st.buf, think_end - 1 + CloseLen),
                                           !.inside = FALSE],
                        cont |-> TRUE]
             ELSE [st   |-> [st EXCEPT !.thk = st.thk \o ThinkingEmit(st.buf),
                                       !.buf = <<>>],
                   cont |-> FALSE]

RECURSIVE Loop(_)
Loop(st) == LET r == LoopBody(st) IN IF r.cont THEN Loop(r.st) ELSE r.st

\* append_ai_stream_content(chunk) / process_ai_chunk_study_mode(chunk)
AppendChunk(st, chunk) == Loop([st EXCEPT !.buf = st.buf \o chunk])

----------------------------------------------------------------------------
(* The responses the model server may send *)

\* number of pieces a generated response is built from
MaxPieces == 3

Pieces == {OpenTag, CloseTag, <<"A">>, <<" ">>, <<"<">>}

RECURSIVE Flatten(_)
Flatten(ps) == IF ps = <<>> THEN <<>> ELSE Head(ps) \o Flatten(Tail(ps))

GeneratedStreams ==
    {Flatten(ps) : ps \in UNION {[1..k -> Pieces] : k \in 0..MaxPieces}}

\* "<think>ABC</think>DEF"
StreamABC == OpenTag \o <<"A", "B", "C">> \o CloseTag \o <<"D", "E", "F">>

\* "<think>X</think>Y"
StreamXY == OpenTag \o <<"X">> \o CloseTag \o <<"Y">>

\* "Hello <think>reasoning here</think> world"
StreamHello ==
    <<"H", "e", "l", "l", "o", " ">> \o OpenTag
    \o <<"r", "e", "a", "s", "o", "n", "i", "n", "g", " ", "h", "e", "r", "e">>
    \o CloseTag \o <<" ", "w", "o", "r", "l", "d">>

\* "<think>a b": a thinking block that is never closed
StreamOpen == OpenTag \o <<"a", " ", "b">>

Streams == GeneratedStreams \cup {StreamABC, StreamXY, StreamHello, StreamOpen}

\* a chunk boundary after the first p characters of s falls strictly inside an
\* occurrence of the literal lit
InsideLiteral(s, p, lit) ==
    \E i \in 1..Len(s) :
        /\ StartsWith(Drop(s, i - 1), lit)
        /\ i <= p
        /\ p < i + Len(lit) - 1

----------------------------------------------------------------------------
(* The streaming session as a state machine *)

StreamState ==
    [buf |-> ai_stream_buffer, inside |-> inside_think_tags,
     main |-> main_content_buffer, has |-> has_thinking_content,
     ans |-> answer, thk |-> thinking]

SetStreamState(st) ==
    /\ ai_stream_buffer' = st.buf
    /\ inside_think_tags' = st.inside
    /\ main_content_buffer' = st.main
    /\ has_thinking_content' = st.has
    /\ answer' = st.ans
    /\ thinking' = st.thk

\* stands for "no call yet" in call_rect
NoRect == [top |-> 0, width |-> 0, height |-> 0]

\* AudioWaveformWidget.__init__, before any audio or transcription is loaded
LaneIdle ==
    /\ annotations = <<>>
    /\ audio_duration = 0
    /\ widget_size = <<0, 0>>
    /\ layout_cache = <<>>
    /\ last_rect_size = <<0, 0>>
    /\ zone_assignments = <<>>
    /\ call_rect = NoRect
    /\ revisit = FALSE

\* no transcription has been run
TransIdle ==
    /\ whisper_segments = <<>>
    /\ sentence_segments = <<>>
    /\ trans_pc = "done"

\* SidebarWidget.__init__ and OllamaClient.__init__: nothing queued, no thread
SessIdle ==
    /\ pending_updates = <<>>
    /\ stop_event = FALSE
    /\ net_pc = "idle"
    /\ net_chunk = <<>>
    /\ ui_pc = "idle"
    /\ ui_i = 0
    /\ session = 0
    /\ stopped = FALSE
    /\ late = FALSE
    /\ failed = FALSE
    /\ err_routed = FALSE
    /\ chunks_done = 0

\* OllamaClient.__init__: no request yet
ClientIdle ==
    /\ threads = <<>>
    /\ calls = <<>>

\* TranscriptionService.__init__: no model is being loaded
LoadIdle ==
    /\ load_pc = "idle"
    /\ load_attempt = 0
    /\ load_log = <<>>
    /\ completions = <<>>

\* NotesDatabase.__init__ on a new file: empty tables
DbIdle ==
    /\ db_projects = {}
    /\ db_sentences = {}
    /\ db_notes = {}
    /\ db_seq = [sentences |-> 0, notes |-> 0]
    /\ db_last = [op |-> "none"]
    /\ db_calls = 0

\* SidebarManager.__init__ and setup_ui: no sidebar, hidden
ManagerIdle ==
    /\ active_sidebars = <<>>
    /\ sidebars = <<>>
    /\ manager_visible = FALSE

AuxIdle == ClientIdle /\ LoadIdle /\ DbIdle /\ ManagerIdle

\* a new widget: SidebarWidget.__init__ sets the fields; MarkdownEditor creates
\* them with the same values on the first chunk (hasattr guard)
SplitInit ==
    /\ LaneIdle
    /\ SessIdle
    /\ TransIdle
    /\ AuxIdle
    /\ stream \in Streams
    /\ study_mode \in BOOLEAN
    /\ pos = 0
    /\ pc = "streaming"
    /\ ai_stream_buffer = <<>>
    /\ inside_think_tags = FALSE
    /\ main_content_buffer = <<>>
    /\ has_thinking_content = FALSE
    /\ answer = <<>>
    /\ thinking = <<>>
    /\ split_open = FALSE
    /\ split_close = FALSE
    /\ blank_chunk = FALSE
    /\ chat_history = <<>>

\* the bookkeeping common to both chunk handlers: the next n characters of the
\* response arrive as one chunk
Deliver(n) ==
    /\ pos' = pos + n
    /\ split_open' = (split_open \/ InsideLiteral(stream, pos + n, OpenTag))
    /\ split_close' = (split_close \/ InsideLiteral(stream, pos + n, CloseTag))
    /\ blank_chunk' = (blank_chunk \/ ~NonBlank(SubSeq(stream, pos + 1, pos + n)))
    /\ UNCHANGED <<stream, study_mode, pc, chat_history>>
    /\ UNCHANGED sessVars
    /\ UNCHANGED laneVars
    /\ UNCHANGED transVars
    /\ UNCHANGED auxVars

\* process_ai_chunk_safe, normal mode: editor.append_ai_stream_content(chunk)
EditorChunk ==
    /\ pc = "streaming"
    /\ ~study_mode
    /\ \E n \in 1..(Len(stream) - pos) :
          /\ SetStreamState(AppendChunk(StreamState, SubSeq(stream, pos + 1, pos + n)))
          /\ Deliver(n)

\* process_ai_chunk_safe, study mode: process_ai_chunk_study_mode(chunk)
StudyChunk ==
    /\ pc = "streaming"
    /\ study_mode
    /\ \E n \in 1..(Len(stream) - pos) :
          /\ SetStreamState(AppendChunk(StreamState, SubSeq(stream, pos + 1, pos + n)))
          /\ Deliver(n)

\* MarkdownEditor.clear_ai_stream_buffer: flush the answer buffer, reset the rest
ClearAiStreamBuffer(st) ==
    [FlushMain(st, TRUE) EXCEPT !.buf = <<>>, !.inside = FALSE,
                                !.main = <<>>, !.has = FALSE]

\* finish_ai_response, normal mode (the 'finish_ai' update queued by on_done)
EditorFinish ==
    /\ pc = "streaming"
    /\ ~study_mode
    /\ pos = Len(stream)
    /\ SetStreamState(ClearAiStreamBuffer(StreamState))
    /\ pc' = "done"
    /\ UNCHANGED <<stream, pos, study_mode, split_open, split_close, blank_chunk,
                   chat_history>>
    /\ UNCHANGED sessVars
    /\ UNCHANGED laneVars
    /\ UNCHANGED transVars
    /\ UNCHANGED auxVars

\* finish_ai_response, study mode, first part: complete_message is the
\* _content_buffer of the current chat message (there is none before the
\* first answer text is emitted); "if complete_message.strip()" it is appended
\* to chat_history and saved
SaveAssistantMessage(history, st) ==
    IF NonBlank(st.ans) THEN Append(history, st.ans) ELSE history

\* finish_ai_response, study mode: the message is saved, then
\* _flush_main_content_buffer(force_partial=True)
StudyFinish ==
    /\ pc = "streaming"
    /\ study_mode
    /\ pos = Len(stream)
    /\ chat_history' = SaveAssistantMessage(chat_history, StreamState)
    /\ SetStreamState(FlushMain(StreamState, TRUE))
    /\ pc' = "done"
    /\ UNCHANGED <<stream, pos, study_mode, split_open, split_close, blank_chunk>>
    /\ UNCHANGED sessVars
    /\ UNCHANGED laneVars
    /\ UNCHANGED transVars
    /\ UNCHANGED auxVars

SplitNext == EditorChunk \/ StudyChunk \/ EditorFinish \/ StudyFinish

vars == <<splitVars, laneVars, transVars, auxVars>>

SplitSpec == SplitInit /\ [][SplitNext]_vars

----------------------------------------------------------------------------
(* Long answers without tags, delivered in chunks of a few sizes *)

\* n times the character c
Repeat(c, n) == [i \in 1..n |-> c]

\* 100 and 101 letters; "a " and 101 letters; 60 letters, a blank, 60 letters
LongStreams ==
    {Repeat("x", FlushCap),
     Repeat("x", FlushCap + 1),
     <<"a", " ">> \o Repeat("x", FlushCap + 1),
     Repeat("x", 60) \o <<" ">> \o Repeat("x", 60)}

\* the sizes of the next chunk
LongChunkLens ==
    {n \in 1..(Len(stream) - pos) : n \in {1, 2, 60, FlushCap, Len(stream) - pos}}

LongInit ==
    /\ LaneIdle
    /\ SessIdle
    /\ TransIdle
    /\ AuxIdle
    /\ stream \in LongStreams
    /\ study_mode \in BOOLEAN
    /\ pos = 0
    /\ pc = "streaming"
    /\ ai_stream_buffer = <<>>
    /\ inside_think_tags = FALSE
    /\ main_content_buffer = <<>>
    /\ has_thinking_content = FALSE
    /\ answer = <<>>
    /\ thinking = <<>>
    /\ split_open = FALSE
    /\ split_close = FALSE
    /\ blank_chunk = FALSE
    /\ chat_history = <<>>

\* process_ai_chunk_safe(chunk), either mode
LongChunk ==
    /\ pc = "streaming"
    /\ \E n \in LongChunkLens :
          /\ SetStreamState(AppendChunk(StreamState, SubSeq(stream, pos + 1, pos + n)))
          /\ Deliver(n)

LongNext == LongChunk \/ EditorFinish \/ StudyFinish

LongSpec == LongInit /\ [][LongNext]_vars

----------------------------------------------------------------------------
(* A widget over several responses: the streaming thread of OllamaClient     *)
(* hands chunks to on_chunk, which queues them in pending_updates; the UI    *)
(* thread's 50 ms timer runs process_pending_updates; the user may stop a    *)
(* response.  One streaming thread runs at a time here: a new response is    *)
(* requested when the previous thread has ended and its updates are done.    *)

\* responses requested from one widget
MaxSessions == 2

\* "<think>a", "AB", "A<"
SessionStreams == {OpenTag \o <<"a">>, <<"A", "B">>, <<"A", "<">>}

\* f"\n\nError: {e}", the text on_chunk gets for a RequestException
ErrorText == <<"\n", "\n", "E", "r", "r", "o", "r", ":", " ", "e">>

\* the size of the next chunk: the server sends a response token by token, the
\* opening literal being one token and every other character one
ChunkLens ==
    IF StartsWith(Drop(stream, pos), OpenTag) THEN {Len(OpenTag)} ELSE {1}

\* queue_ui_update(action, data)
QueueUiUpdate(queue, action, data) == Append(queue, [action |-> action, data |-> data])

SessInit ==
    /\ LaneIdle
    /\ SessIdle
    /\ TransIdle
    /\ AuxIdle
    /\ stream = <<>>
    /\ study_mode \in BOOLEAN
    /\ pos = 0
    /\ pc = "done"
    /\ ai_stream_buffer = <<>>
    /\ inside_think_tags = FALSE
    /\ main_content_buffer = <<>>
    /\ has_thinking_content = FALSE
    /\ answer = <<>>
    /\ thinking = <<>>
    /\ split_open = FALSE
    /\ split_close = FALSE
    /\ blank_chunk = FALSE
    /\ chat_history = <<>>

\* get_ai_explanation (normal mode) / handle_user_message (study mode), up to
\* OllamaClient.get_explanation: stop_event.clear() and thread.start().
\* Study mode clears the thinking text and the next answer text starts a new
\* chat message (_current_ai_message is None after finish_ai_response).
StartSession ==
    /\ session < MaxSessions
    /\ pc = "done"
    /\ net_pc = "idle"
    /\ ui_pc = "idle"
    /\ pending_updates = <<>>
    /\ session' = session + 1
    /\ \E s \in SessionStreams : stream' = s
    /\ pos' = 0
    /\ pc' = "streaming"
    /\ stop_event' = FALSE
    /\ net_pc' = "loop"
    /\ pending_updates' = IF study_mode THEN pending_updates
                          ELSE QueueUiUpdate(pending_updates, "show_ai_buttons", <<>>)
    /\ thinking' = IF study_mode THEN <<>> ELSE thinking
    /\ answer' = IF study_mode THEN <<>> ELSE answer
    /\ stopped' = FALSE
    /\ late' = FALSE
    /\ failed' = FALSE
    /\ err_routed' = FALSE
    /\ chunks_done' = 0
    /\ UNCHANGED <<study_mode, ai_stream_buffer, inside_think_tags, main_content_buffer,
                   has_thinking_content, split_open, split_close, blank_chunk,
                   chat_history, net_chunk, ui_pc, ui_i>>
    /\ UNCHANGED laneVars
    /\ UNCHANGED transVars
    /\ UNCHANGED auxVars

\* what every step of the streaming thread leaves alone
NetFrame ==
    /\ UNCHANGED <<stream, study_mode, pc, ai_stream_buffer, inside_think_tags,
                   main_content_buffer, has_thinking_content, answer, thinking,
                   split_open, split_close, blank_chunk, chat_history>>
    /\ UNCHANGED <<ui_pc, ui_i, session, stopped, late, err_routed, chunks_done>>
    /\ UNCHANGED laneVars
    /\ UNCHANGED transVars
    /\ UNCHANGED auxVars

\* _stream_explanation: one turn of "for line in response.iter_lines()" up to
\* the call of on_chunk: the stop_event test, then the line's chunk; the
\* response ends with the line that has "done"
NetLine ==
    /\ net_pc = "loop"
    /\ IF stop_event \/ pos = Len(stream)
       THEN /\ net_pc' = "finally"
            /\ UNCHANGED <<pos, net_chunk>>
       ELSE \E n \in ChunkLens :
               /\ net_chunk' = SubSeq(stream, pos + 1, pos + n)
               /\ pos' = pos + n
               /\ net_pc' = "chunk"
    /\ UNCHANGED <<pending_updates, stop_event, failed>>
    /\ NetFrame

\* _stream_explanation: requests.post, raise_for_status or iter_lines raises a
\* RequestException: "except requests.exceptions.RequestException as e"
NetFail ==
    /\ net_pc = "loop"
    /\ pos < Len(stream)
    /\ net_chunk' = ErrorText
    /\ net_pc' = "error"
    /\ failed' = TRUE
    /\ UNCHANGED <<pos, pending_updates, stop_event>>
    /\ NetFrame

\* on_chunk(chunk): self.queue_ui_update('process_chunk', chunk)
NetOnChunk ==
    /\ net_pc \in {"chunk", "error"}
    /\ pending_updates' = QueueUiUpdate(pending_updates, "process_chunk", net_chunk)
    /\ net_pc' = IF net_pc = "error" THEN "finally" ELSE "loop"
    /\ net_chunk' = <<>>
    /\ UNCHANGED <<pos, stop_event, failed>>
    /\ NetFrame

\* "finally: on_done()": self.queue_ui_update('finish_ai'); the thread ends
NetOnDone ==
    /\ net_pc = "finally"
    /\ pending_updates' = QueueUiUpdate(pending_updates, "finish_ai", <<>>)
    /\ net_pc' = "idle"
    /\ UNCHANGED <<pos, net_chunk, stop_event, failed>>
    /\ NetFrame

\* what the steps of the UI thread that touch no splitter state leave alone
UiFrame ==
    /\ UNCHANGED <<stream, pos, study_mode, split_open, split_close, blank_chunk>>
    /\ UNCHANGED <<net_pc, net_chunk, session, failed>>
    /\ UNCHANGED laneVars
    /\ UNCHANGED transVars
    /\ UNCHANGED auxVars

\* process_pending_updates: "if not self.pending_updates: return", else the
\* for-loop starts
UiBegin ==
    /\ ui_pc = "idle"
    /\ pending_updates # <<>>
    /\ ui_pc' = "loop"
    /\ ui_i' = 1
    /\ UNCHANGED <<pc, ai_stream_buffer, inside_think_tags, main_content_buffer,
                   has_thinking_content, answer, thinking, chat_history>>
    /\ UNCHANGED <<pending_updates, stop_event, stopped, late, err_routed, chunks_done>>
    /\ UiFrame

\* finish_ai_response: clear_ai_stream_buffer in normal mode, only
\* _flush_main_content_buffer(force_partial=True) in study mode
FinishAiResponse(st) ==
    IF study_mode THEN FlushMain(st, TRUE) ELSE ClearAiStreamBuffer(st)

\* the body of "for action, data in self.pending_updates" for one item
UiItem ==
    /\ ui_pc = "loop"
    /\ ui_i <= Len(pending_updates)
    /\ LET item == pending_updates[ui_i]
       IN  /\ IF item.action = "process_chunk"
              THEN /\ SetStreamState(AppendChunk(StreamState, item.data))
                   /\ chunks_done' = chunks_done + 1
                   /\ late' = (late \/ stopped)
                   /\ err_routed' = (err_routed \/ (failed /\ item.data = ErrorText))
                   /\ UNCHANGED <<pc, chat_history>>
              ELSE IF item.action = "finish_ai"
              THEN /\ chat_history' = IF study_mode
                                      THEN SaveAssistantMessage(chat_history, StreamState)
                                      ELSE chat_history
                   /\ SetStreamState(FinishAiResponse(StreamState))
                   /\ pc' = "done"
                   /\ UNCHANGED <<chunks_done, late, err_routed>>
              ELSE /\ UNCHANGED <<pc, ai_stream_buffer, inside_think_tags,
                                  main_content_buffer, has_thinking_content,
                                  answer, thinking, chat_history>>
                   /\ UNCHANGED <<chunks_done, late, err_routed>>
    /\ ui_i' = ui_i + 1
    /\ UNCHANGED <<pending_updates, stop_event, ui_pc, stopped>>
    /\ UiFrame

\* the for-loop finds no further item
UiLoopEnd ==
    /\ ui_pc = "loop"
    /\ ui_i > Len(pending_updates)
    /\ ui_pc' = "clear"
    /\ UNCHANGED <<pc, ai_stream_buffer, inside_think_tags, main_content_buffer,
                   has_thinking_content, answer, thinking, chat_history>>
    /\ UNCHANGED <<pending_updates, stop_event, ui_i, stopped, late, err_routed,
                   chunks_done>>
    /\ UiFrame

\* "self.pending_updates.clear()"
UiClear ==
    /\ ui_pc = "clear"
    /\ pending_updates' = <<>>
    /\ ui_pc' = "idle"
    /\ ui_i' = 0
    /\ UNCHANGED <<pc, ai_stream_buffer, inside_think_tags, main_content_buffer,
                   has_thinking_content, answer, thinking, chat_history>>
    /\ UNCHANGED <<stop_event, stopped, late, err_routed, chunks_done>>
    /\ UiFrame

\* the user stops the response.  Normal mode, stop_ai_explanation:
\* ollama_client.stop() and queue_ui_update('finish_ai'); study mode,
\* send_or_stop_message while is_ai_responding: ollama_client.stop()
StopResponse ==
    /\ pc = "streaming"
    /\ ~stopped
    /\ ui_pc = "idle"
    /\ stop_event' = TRUE
    /\ stopped' = TRUE
    /\ pending_updates' = IF study_mode THEN pending_updates
                          ELSE QueueUiUpdate(pending_updates, "finish_ai", <<>>)
    /\ UNCHANGED <<pc, ai_stream_buffer, inside_think_tags, main_content_buffer,
                   has_thinking_content, answer, thinking, chat_history>>
    /\ UNCHANGED <<ui_pc, ui_i, late, err_routed, chunks_done>>
    /\ UiFrame

SessNext ==
    \/ StartSession
    \/ NetLine
    \/ NetFail
    \/ NetOnChunk
    \/ NetOnDone
    \/ UiBegin
    \/ UiItem
    \/ UiLoopEnd
    \/ UiClear
    \/ StopResponse

SessSpec == SessInit /\ [][SessNext]_vars

----------------------------------------------------------------------------
(* What the splitter is specified to deliver: the response parsed as a whole, *)
(* "<think>" opening and "</think>" closing the thinking block.               *)

RECURSIVE Ref(_, _)
Ref(s, inside) ==
    IF s = <<>> THEN [ans |-> <<>>, thk |-> <<>>]
    ELSE IF ~inside /\ StartsWith(s, OpenTag) THEN Ref(Drop(s, Len(OpenTag)), TRUE)
    ELSE IF inside /\ StartsWith(s, CloseTag) THEN Ref(Drop(s, Len(CloseTag)), FALSE)
    ELSE LET r == Ref(Tail(s), inside)
         IN  IF inside THEN [r EXCEPT !.thk = <<Head(s)>> \o r.thk]
                       ELSE [r EXCEPT !.ans = <<Head(s)>> \o r.ans]

RefAnswer(s) == Ref(s, FALSE).ans
RefThinking(s) == Ref(s, FALSE).thk

Count(c, s) == Cardinality({i \in 1..Len(s) : s[i] = c})

Alphabet == {stream[i] : i \in 1..Len(stream)}

TagChars == {OpenTag[i] : i \in 1..Len(OpenTag)} \cup {"/"}

NoTagChar(s) == \A i \in 1..Len(s) : s[i] \notin TagChars

\* position of the opening tag in the response (0: none)
OpenPos == FindSub(stream, OpenTag)

\* the first '<' of the response starts the literal "<think>"
FirstLtIsTag == OpenPos # 0 /\ FindSub(stream, <<"<">>) = OpenPos

\* s begins and ends with a character that is not whitespace
Trimmed(s) == s # <<>> /\ s[1] \notin Whitespace /\ s[Len(s)] \notin Whitespace

\* the response opens a thinking block and never closes it
Unterminated ==
    /\ OpenPos # 0
    /\ FindSub(Drop(stream, OpenPos - 1 + Len(OpenTag)), CloseTag) = 0

----------------------------------------------------------------------------
(* Claims about the splitter *)

\* C1: for the responses "<think>ABC</think>DEF" and
\* "Hello <think>reasoning here</think> world", however they are cut into
\* chunks, after the end-of-stream flush the thinking sink holds the text
\* between the tags and the answer sink the text outside them.
C1_ChunkBoundaryInvariance ==
    (pc = "done" /\ stream \in {StreamABC, StreamHello})
        => (thinking = RefThinking(stream) /\ answer = RefAnswer(stream))

\* C2: after the end-of-stream flush every character of the response that is
\* not part of a delimiter has been emitted exactly once, to one of the sinks:
\* the sinks together hold each character as often as the response's text does.
C2_NoCharDroppedOrDuplicated ==
    pc = "done" =>
        \A c \in Alphabet :
            Count(c, answer) + Count(c, thinking)
                = Count(c, RefAnswer(stream)) + Count(c, RefThinking(stream))

\* C3: when the text of the response shares no character with the delimiters,
\* no character of a delimiter ever reaches a sink, in any state.
C3_DelimitersNeverEmitted ==
    (OpenPos # 0 /\ NoTagChar(RefAnswer(stream)) /\ NoTagChar(RefThinking(stream)))
        => (NoTagChar(answer) /\ NoTagChar(thinking))

\* C4: a response without "<think>" is, after the end-of-stream flush, in the
\* answer sink unchanged, and the thinking sink is empty.
C4_NoTagAllAnswer ==
    (pc = "done" /\ OpenPos = 0) => (answer = stream /\ thinking = <<>>)

\* C5: a chunk boundary inside the opening literal does not prevent its
\* recognition.  While the literal that starts at the first '<' is only partly
\* delivered, its prefix is held in the raw buffer and nothing of it is
\* emitted; when the last character of the literal has arrived the splitter
\* is in the thinking state; and "<think>X</think>Y" cut inside the opening
\* literal (and not inside the closing one) ends with "X" in the thinking sink
\* and "Y" in the answer sink.
C5_SplitOpeningTagRecognised ==
    /\ (pc = "streaming" /\ FirstLtIsTag /\ pos \in OpenPos..(OpenPos + Len(OpenTag) - 2))
          => /\ ~inside_think_tags
             /\ ~has_thinking_content
             /\ ai_stream_buffer = SubSeq(stream, OpenPos, pos)
             /\ thinking = <<>>
             /\ Count("<", answer \o main_content_buffer) = 0
    /\ (pc = "streaming" /\ FirstLtIsTag /\ pos >= OpenPos + Len(OpenTag) - 1)
          => has_thinking_content
    /\ (pc = "streaming" /\ FirstLtIsTag /\ pos = OpenPos + Len(OpenTag) - 1)
          => (inside_think_tags /\ ai_stream_buffer = <<>> /\ thinking = <<>>)
    /\ (pc = "done" /\ stream = StreamXY /\ split_open /\ ~split_close)
          => (thinking = <<"X">> /\ answer = <<"Y">>)

\* C5 witness: "<thi" then "nk>X</think>Y", flushed
C5_Witness ==
    /\ pc = "done"
    /\ stream = StreamXY
    /\ split_open
    /\ ~split_close
    /\ thinking = <<"X">>
    /\ answer = <<"Y">>

\* C6: a response that opens a thinking block and never closes it (its
\* thinking text beginning and ending with a visible character) ends, after
\* the end-of-stream flush, with everything after the opening tag in the
\* thinking sink and none of it in the answer sink.
C6_UnterminatedThinkingFlushed ==
    (pc = "done" /\ Unterminated /\ Trimmed(RefThinking(stream)))
        => (thinking = RefThinking(stream) /\ Len(answer) <= Len(RefAnswer(stream)))

----------------------------------------------------------------------------
(* The lane packer.                                                          *)
(*                                                                           *)
(* The code computes in floating point; the model computes the same values   *)
(* exactly, as integers in a finer unit:                                     *)
(*   horizontal values (start_x, end_x, width, x_position) in units of       *)
(*   1/(5 * duration) pixel  (max_bubble_width is a multiple of 0.6 and      *)
(*   start_x a multiple of 1/duration);                                      *)
(*   scaled vertical values (y_position, height) in units of                 *)
(*   1/natural_total pixel.                                                  *)
(* A segment is [text, start_time, end_time], text being its number of       *)
(* characters; a rect is [top, width, height].                               *)

margin == 30
header_width == 25
text_margin == 12
top_margin == 15
timestamp_height == 20
bottom_margin == 15
min_bubble_width == 120
buffer_px == 10
track_margin_top == 60
zone_spacing == 12
bottom_padding == 20

\* QFontMetrics(QFont("Arial", 14)): the advance of one character and the
\* height of one line, in pixels
CharAdvance == 8
LineHeight == 16

Max(a, b) == IF a >= b THEN a ELSE b
Min(a, b) == IF a <= b THEN a ELSE b

\* the number of horizontal units in px pixels
HUnits(px, duration) == px * 5 * duration

\* fm.horizontalAdvance(text), in pixels
horizontalAdvance(text) == CharAdvance * text

\* fm.boundingRect(QRect(0, 0, content_width, 10000), TextWordWrap, text).height():
\* the text wrapped into lines of content_width pixels
boundingRectHeight(text, content_width) ==
    LET adv   == horizontalAdvance(text)
        lines == Max(1, (adv + content_width - 1) \div content_width)
    IN  LineHeight * lines

\* the layout get_dynamic_layout computes for a rect of the given size;
\* max_bubble_width = min(400, available_width * 0.6) is kept in fifths of a pixel
ComputeLayout(size) ==
    LET available_height == size[2] - 60
        available_width  == size[1] - 40
    IN  [zone_height |-> 90,
         max_zones |-> 999,
         max_bubble_width |-> Min(5 * 400, 3 * available_width),
         available_height |-> available_height,
         available_width |-> available_width]

\* layout_cache[current_size] = layout
CachePut(cache, size, layout) ==
    [k \in DOMAIN cache \cup {size} |-> IF k = size THEN layout ELSE cache[k]]

\* a cache that is refreshed only for sizes it has never seen and otherwise
\* answers with the layout of the size laid out last
StaleLayout(cache, last, rect) ==
    LET current_size == <<rect.width, rect.height>>
    IN  IF current_size \notin DOMAIN cache
        THEN [layout |-> ComputeLayout(current_size),
              cache  |-> CachePut(cache, current_size, ComputeLayout(current_size)),
              last   |-> current_size]
        ELSE [layout |-> cache[last], cache |-> cache, last |-> last]

\* "if last_rect_size != current_size or current_size not in layout_cache"
NeedsRecalculation(cache, last, current_size) ==
    last # current_size \/ current_size \notin DOMAIN cache

\* get_dynamic_layout(rect): the layout returned and the widget's cache fields after
get_dynamic_layout(cache, last, rect) ==
    LET current_size == <<rect.width, rect.height>>
    IN  IF NeedsRecalculation(cache, last, current_size)
        THEN [layout |-> ComputeLayout(current_size),
              cache  |-> CachePut(cache, current_size, ComputeLayout(current_size)),
              last   |-> current_size]
        ELSE [layout |-> cache[current_size], cache |-> cache, last |-> last]

\* sorted(annotations_with_indices, key=start_time): a stable sort; an item is
\* <<original_index, annotation>>
RECURSIVE InsertByStart(_, _)
InsertByStart(sorted, item) ==
    IF sorted = <<>> THEN <<item>>
    ELSE IF sorted[Len(sorted)][2].start_time <= item[2].start_time
         THEN Append(sorted, item)
         ELSE Append(InsertByStart(SubSeq(sorted, 1, Len(sorted) - 1), item),
                     sorted[Len(sorted)])

RECURSIVE SortByStart(_)
SortByStart(items) ==
    IF items = <<>> THEN <<>>
    ELSE InsertByStart(SortByStart(SubSeq(items, 1, Len(items) - 1)), items[Len(items)])

\* bubble_width, in fifths of a pixel
BubbleWidth5(text, layout, available_width) ==
    LET single_line_width == horizontalAdvance(text) + 2 * text_margin
        bubble_width == Min(layout.max_bubble_width,
                            Max(5 * min_bubble_width, 5 * single_line_width))
    IN  Min(bubble_width, 5 * available_width)

\* the body of "for original_index, annotation in sorted_annotations"
PrecomputeItem(item, layout, available_width, duration) ==
    LET start_time    == item[2].start_time
        text          == item[2].text
        bubble_width  == BubbleWidth5(text, layout, available_width)
        \* int(max(10, bubble_width - 2 * text_margin))
        content_width == Max(10, (bubble_width - 5 * 2 * text_margin) \div 5)
        text_height   == boundingRectHeight(text, content_width)
        bubble_height == top_margin + timestamp_height + bottom_margin + text_height
        start_x       == HUnits(margin, duration) + 5 * start_time * available_width
        end_x         == start_x + bubble_width * duration
    IN  [index |-> item[1], start_x |-> start_x, end_x |-> end_x,
         width |-> bubble_width * duration, height |-> bubble_height]

\* an overlap test that compares with the span's start where its end is meant
ConflictsByStart(item, span, duration) ==
    ~(\/ item.end_x + HUnits(buffer_px, duration) <= span[1]
      \/ item.start_x >= span[1] + HUnits(buffer_px, duration))

\* "if not (item.end_x + buffer_px <= ex_s or item.start_x >= ex_e + buffer_px)"
Conflicts(item, span, duration) ==
    ~(\/ item.end_x + HUnits(buffer_px, duration) <= span[1]
      \/ item.start_x >= span[2] + HUnits(buffer_px, duration))

\* a lane test that looks at the first span of the lane only
CanFitFirstSpan(item, lane, duration) == ~Conflicts(item, lane[1], duration)

\* "can_fit": the item conflicts with no span of the lane
CanFit(item, lane, duration) ==
    \A k \in 1..Len(lane) : ~Conflicts(item, lane[k], duration)

\* a greedy loop that takes the last lane that fits instead of the first
AssignedZoneLastFit(item, lanes, duration) ==
    LET fits == {z \in 1..Len(lanes) : CanFit(item, lanes[z], duration)}
    IN  IF fits = {} THEN Len(lanes) + 1
        ELSE CHOOSE z \in fits : \A y \in fits : y <= z

\* the zone the greedy loop assigns: the first lane that fits, else a new one
AssignedZone(item, lanes, duration) ==
    LET fits == {z \in 1..Len(lanes) : CanFit(item, lanes[z], duration)}
    IN  IF fits = {} THEN Len(lanes) + 1
        ELSE CHOOSE z \in fits : \A y \in fits : z <= y

\* "for item in precomputed": zones[k] is the zone (1-based) of precomputed[k]
RECURSIVE AssignLanes(_, _, _, _, _)
AssignLanes(precomputed, k, lanes, zones, duration) ==
    IF k > Len(precomputed) THEN [lanes |-> lanes, zones |-> zones]
    ELSE LET item == precomputed[k]
             z    == AssignedZone(item, lanes, duration)
             span == <<item.start_x, item.end_x>>
             lanes1 == IF z > Len(lanes) THEN Append(lanes, <<span>>)
                       ELSE [lanes EXCEPT ![z] = Append(lanes[z], span)]
         IN  AssignLanes(precomputed, k + 1, lanes1, Append(zones, z), duration)

RECURSIVE SumSeq(_)
SumSeq(q) == IF q = <<>> THEN 0 ELSE Head(q) + SumSeq(Tail(q))

MaxOf(S) == CHOOSE x \in S : \A y \in S : y <= x

\* lane_max_heights
LaneMaxHeights(precomputed, zones, nlanes) ==
    [z \in 1..nlanes |->
        MaxOf({precomputed[k].height : k \in {j \in 1..Len(zones) : zones[j] = z}})]

\* natural_total
NaturalTotal(lane_max_heights) ==
    SumSeq(lane_max_heights) + zone_spacing * Max(0, Len(lane_max_heights) - 1)

\* available_height
AvailableHeight(rect) == Max(0, rect.height - track_margin_top - bottom_padding)

\* y_cursor at lane z, in units of 1/natural_total pixel:
\* rect.top() + track_margin_top + the sum of (h * scale + zone_spacing) of the lanes above
LaneYOffset(z, lane_max_heights, rect) ==
    LET natural_total == NaturalTotal(lane_max_heights)
        available_height == AvailableHeight(rect)
    IN  (rect.top + track_margin_top) * natural_total
        + SumSeq([j \in 1..(z - 1) |->
                    lane_max_heights[j] * available_height + zone_spacing * natural_total])

\* every bubble of a lane given the lane's scaled height
ScaledHeightOfLane(item, z, lane_max_heights, rect) ==
    lane_max_heights[z] * AvailableHeight(rect)

\* "zone_assignments[index]['height'] = item['height'] * lane_scales[z]", in
\* units of 1/natural_total pixel: lane_scales[z] is the common scale
ScaledHeight(item, z, lane_max_heights, rect) ==
    item.height * AvailableHeight(rect)

\* a packer that divides by the duration as it is
LayoutDurationRaw(duration_field) == duration_field

\* "duration = max(self.audio_duration, 1)"
LayoutDuration(duration_field) == Max(duration_field, 1)

\* "available_width = max(1, rect.width() - (2 * margin) - header_width)"
AvailableWidth(rect) == Max(1, rect.width - 2 * margin - header_width)

\* the first half of _distribute_annotations_to_zones: sort, precompute, assign
\* lanes, lane heights.  at[i] is the place of original index i in precomputed.
Packed(anns, duration_field, rect, layout) ==
    LET sorted_annotations == SortByStart([i \in 1..Len(anns) |-> <<i, anns[i]>>])
        available_width == AvailableWidth(rect)
        duration == LayoutDuration(duration_field)
        precomputed == [k \in 1..Len(sorted_annotations) |->
                          PrecomputeItem(sorted_annotations[k], layout,
                                         available_width, duration)]
        assigned == AssignLanes(precomputed, 1, <<>>, <<>>, duration)
    IN  [precomputed |-> precomputed,
         zones |-> assigned.zones,
         lane_max_heights |->
             LaneMaxHeights(precomputed, assigned.zones, Len(assigned.lanes)),
         at |-> [i \in 1..Len(anns) |->
                    CHOOSE k \in 1..Len(precomputed) : precomputed[k].index = i]]

\* _distribute_annotations_to_zones, given the layout get_dynamic_layout
\* returned: a function from the original index to the assignment.
\* The zones are 0-based as in the code.
Distribute(anns, duration_field, rect, layout) ==
    IF anns = <<>> THEN <<>>
    ELSE
    LET p == Packed(anns, duration_field, rect, layout)
    IN  [i \in 1..Len(anns) |->
            LET k == p.at[i]
                z == p.zones[k]
            IN  [zone |-> z - 1,
                 offset |-> 0,
                 x_position |-> p.precomputed[k].start_x,
                 width |-> p.precomputed[k].width,
                 y_position |-> LaneYOffset(z, p.lane_max_heights, rect),
                 height |-> ScaledHeight(p.precomputed[k], z, p.lane_max_heights, rect)]]

----------------------------------------------------------------------------
(* The waveform widget as a state machine *)

\* segments of one transcription
MaxSegs == 2

\* the start times of the segments, in seconds
StartTimes == {0, 1, 2}

\* the texts, by their number of characters: one short line, several lines
TextLens == {4, 70}

Segments ==
    {[text |-> t, start_time |-> b, end_time |-> b + 1] : t \in TextLens, b \in StartTimes}

SegmentLists == UNION {[1..n -> Segments] : n \in 1..MaxSegs}

\* what load_audio_file may find as the file's duration
Durations == {0, 7}

WidgetSizes == {<<400, 110>>, <<1200, 300>>}

\* the splitter's fields while no response is streamed
SplitIdle ==
    /\ stream = <<>>
    /\ pos = 0
    /\ study_mode = FALSE
    /\ pc = "done"
    /\ ai_stream_buffer = <<>>
    /\ inside_think_tags = FALSE
    /\ main_content_buffer = <<>>
    /\ has_thinking_content = FALSE
    /\ answer = <<>>
    /\ thinking = <<>>
    /\ split_open = FALSE
    /\ split_close = FALSE
    /\ blank_chunk = FALSE
    /\ chat_history = <<>>
    /\ SessIdle

LaneInit ==
    /\ SplitIdle
    /\ TransIdle
    /\ AuxIdle
    /\ annotations = <<>>
    /\ audio_duration = 0
    /\ widget_size \in WidgetSizes
    /\ layout_cache = <<>>
    /\ last_rect_size = <<0, 0>>
    /\ zone_assignments = <<>>
    /\ call_rect = NoRect
    /\ revisit = FALSE

\* self.rect()
WidgetRect == [top |-> 0, width |-> widget_size[1], height |-> widget_size[2]]

\* paintEvent: waveform_rect = rect.adjusted(margin + header_width, margin, -margin, -margin)
\* with margin = 15 and header_width = 1
WaveformRect ==
    [top |-> 15, width |-> widget_size[1] - (15 + 1) - 15, height |-> widget_size[2] - 15 - 15]

\* A caller's "layout = self.get_dynamic_layout(rect)" followed by
\* "self._distribute_annotations_to_zones(..., rect)", which asks for the layout again
CallDistribute(anns, duration_field, rect) ==
    LET g1 == get_dynamic_layout(layout_cache, last_rect_size, rect)
        g2 == get_dynamic_layout(g1.cache, g1.last, rect)
        result == Distribute(anns, duration_field, rect, g2.layout)
    IN  /\ layout_cache' = g2.cache
        /\ last_rect_size' = g2.last
        /\ zone_assignments' = result
        /\ call_rect' = rect
        /\ revisit' = (/\ <<rect.width, rect.height>> \in DOMAIN layout_cache
                       /\ last_rect_size # <<rect.width, rect.height>>)

\* load_audio_file: the duration of the file (0 when reading it fails); the
\* model loads audio before the transcription exists
LoadAudioFile ==
    /\ annotations = <<>>
    /\ \E d \in Durations : audio_duration' = d
    /\ UNCHANGED <<annotations, widget_size, layout_cache, last_rect_size,
                   zone_assignments, call_rect, revisit>>
    /\ UNCHANGED splitVars
    /\ UNCHANGED transVars
    /\ UNCHANGED auxVars

\* set_transcription_segments(segments): one transcription per widget
SetTranscriptionSegments ==
    /\ annotations = <<>>
    /\ \E segs \in SegmentLists :
          LET max_end_time == MaxOf({segs[i].end_time : i \in 1..Len(segs)})
              display_duration == Max(audio_duration, max_end_time)
          IN  /\ annotations' = segs
              /\ audio_duration' = display_duration
              /\ CallDistribute(segs, display_duration, WidgetRect)
    /\ UNCHANGED widget_size
    /\ UNCHANGED splitVars
    /\ UNCHANGED transVars
    /\ UNCHANGED auxVars

\* the window is resized
ResizeEvent ==
    /\ \E sz \in WidgetSizes \ {widget_size} : widget_size' = sz
    /\ UNCHANGED <<annotations, audio_duration, layout_cache, last_rect_size,
                   zone_assignments, call_rect, revisit>>
    /\ UNCHANGED splitVars
    /\ UNCHANGED transVars
    /\ UNCHANGED auxVars

\* paintEvent -> draw_annotations(painter, waveform_rect)
DrawAnnotations ==
    /\ annotations # <<>>
    /\ CallDistribute(annotations, audio_duration, WaveformRect)
    /\ UNCHANGED <<annotations, audio_duration, widget_size>>
    /\ UNCHANGED splitVars
    /\ UNCHANGED transVars
    /\ UNCHANGED auxVars

\* mouseMoveEvent -> _handle_bubble_hover: rect = self.rect()
HandleBubbleHover ==
    /\ annotations # <<>>
    /\ CallDistribute(annotations, audio_duration, WidgetRect)
    /\ UNCHANGED <<annotations, audio_duration, widget_size>>
    /\ UNCHANGED splitVars
    /\ UNCHANGED transVars
    /\ UNCHANGED auxVars

LaneNext ==
    \/ LoadAudioFile
    \/ SetTranscriptionSegments
    \/ ResizeEvent
    \/ DrawAnnotations
    \/ HandleBubbleHover

LaneSpec == LaneInit /\ [][LaneNext]_vars

----------------------------------------------------------------------------
(* The lane packer on longer transcriptions: a new widget is given one       *)
(* transcription, which lays it out once.                                    *)

\* segments of one long transcription
MaxPackSegs == 4

PackLists == UNION {[1..n -> Segments] : n \in 1..MaxPackSegs}

\* the same segments without their 'end' key: "end_time = segment.get('end', 0)"
WithoutEnd(segs) == [i \in DOMAIN segs |-> [segs[i] EXCEPT !.end_time = 0]]

\* set_transcription_segments(segments) on a widget that has no audio loaded;
\* the segments come with or without end times
PackSegments ==
    /\ annotations = <<>>
    /\ \E timed \in PackLists, has_end \in BOOLEAN :
          LET segs == IF has_end THEN timed ELSE WithoutEnd(timed)
              max_end_time == MaxOf({segs[i].end_time : i \in 1..Len(segs)})
              display_duration == Max(audio_duration, max_end_time)
          IN  /\ annotations' = segs
              /\ audio_duration' = display_duration
              /\ CallDistribute(segs, display_duration, WidgetRect)
    /\ UNCHANGED widget_size
    /\ UNCHANGED splitVars
    /\ UNCHANGED transVars
    /\ UNCHANGED auxVars

PackNext == PackSegments

PackSpec == LaneInit /\ [][PackNext]_vars

----------------------------------------------------------------------------
(* The lane packer on viewports of any width, narrow ones included: a widget *)
(* of one of these sizes is given a transcription and painted.               *)

ViewportSizes == {<<60, 300>>, <<220, 300>>, <<260, 300>>, <<400, 300>>, <<1200, 300>>}

ViewportInit ==
    /\ SplitIdle
    /\ TransIdle
    /\ AuxIdle
    /\ annotations = <<>>
    /\ audio_duration = 0
    /\ widget_size \in ViewportSizes
    /\ layout_cache = <<>>
    /\ last_rect_size = <<0, 0>>
    /\ zone_assignments = <<>>
    /\ call_rect = NoRect
    /\ revisit = FALSE

ViewportNext == SetTranscriptionSegments \/ DrawAnnotations \/ HandleBubbleHover

ViewportSpec == ViewportInit /\ [][ViewportNext]_vars

----------------------------------------------------------------------------
(* Transcription: TranscriptionThread._create_sentence_segments.  A word is  *)
(* [word, start, end], a segment [text, start, end, words]; a segment        *)
(* without the 'words' key has words = <<>>.  None is NoTime.                *)

NoTime == -1

\* str.strip()
RECURSIVE StripLeft(_)
StripLeft(t) == IF t # <<>> /\ Head(t) \in Whitespace THEN StripLeft(Tail(t)) ELSE t

RECURSIVE StripRight(_)
StripRight(t) ==
    IF t # <<>> /\ t[Len(t)] \in Whitespace THEN StripRight(Take(t, Len(t) - 1)) ELSE t

Strip(t) == StripRight(StripLeft(t))

\* re.search(r'[.!?...][\'"")]?$', word_text)
SentenceEnd == {".", "!", "?"}
ClosingQuote == {"'", "\"", ")"}

EndsSentence(word_text) ==
    LET n == Len(word_text)
    IN  \/ (n >= 1 /\ word_text[n] \in SentenceEnd)
        \/ (n >= 2 /\ word_text[n] \in ClosingQuote /\ word_text[n - 1] \in SentenceEnd)

\* re.match(r'^[,;:)\]}"\'...]+$', word_text)
AttachedPunctuation == {",", ";", ":", ")", "]", "}", "\"", "'"}

PunctuationOnly(word_text) ==
    word_text # <<>> /\ \A i \in 1..Len(word_text) : word_text[i] \in AttachedPunctuation

\* the reset value of current_sentence
EmptySentence == [text |-> <<>>, words |-> <<>>, start |-> NoTime, end |-> NoTime]

\* "sentence_segments.append({...})" for current_sentence, "if text.strip()"
AppendSentence(out, cur) ==
    IF Strip(cur.text) # <<>>
    THEN Append(out, [text |-> Strip(cur.text), start |-> cur.start,
                      end |-> cur.end, words |-> cur.words])
    ELSE out

\* the body of "for word in words"; acc is [out, cur]
ProcessWord(acc, word) ==
    LET word_text == Strip(word.word)
    IN  IF word_text = <<>> THEN acc
        ELSE LET cur1 == [text  |-> acc.cur.text \o word_text,
                          words |-> Append(acc.cur.words, word),
                          start |-> IF acc.cur.start = NoTime THEN word.start
                                    ELSE acc.cur.start,
                          end   |-> word.end]
             IN  IF EndsSentence(word_text)
                 THEN [out |-> AppendSentence(acc.out, cur1), cur |-> EmptySentence]
                 ELSE IF ~PunctuationOnly(word_text)
                 THEN [acc EXCEPT !.cur = [cur1 EXCEPT !.text = cur1.text \o <<" ">>]]
                 ELSE [acc EXCEPT !.cur = cur1]

RECURSIVE ProcessWords(_, _)
ProcessWords(acc, words) ==
    IF words = <<>> THEN acc
    ELSE ProcessWords(ProcessWord(acc, Head(words)), Tail(words))

\* the body of "for segment in whisper_result['segments']"
ProcessSegment(acc, segment) ==
    IF segment.words = <<>>
    THEN [acc EXCEPT !.out = Append(acc.out, [text |-> Strip(segment.text),
                                             start |-> segment.start,
                                             end |-> segment.end, words |-> <<>>])]
    ELSE ProcessWords(acc, segment.words)

RECURSIVE ProcessSegments(_, _)
ProcessSegments(acc, segments) ==
    IF segments = <<>> THEN acc
    ELSE ProcessSegments(ProcessSegment(acc, Head(segments)), Tail(segments))

\* _create_sentence_segments(whisper_result)['segments']
CreateSentenceSegments(segments) ==
    LET acc == ProcessSegments([out |-> <<>>, cur |-> EmptySentence], segments)
    IN  AppendSentence(acc.out, acc.cur)

\* segments of one Whisper result
MaxWhisperSegs == 3

\* the words of a segment: none (no word timestamps), "a", "b.", "a b.",
\* "b. a", "a , (blank)"
SegmentShapes ==
    {<<>>, <<<<"a">>>>, <<<<"b", ".">>>>, <<<<"a">>, <<"b", ".">>>>,
     <<<<"b", ".">>, <<"a">>>>, <<<<"a">>, <<",">>, <<" ">>>>}

\* Whisper's k-th segment with the given words: segments and words in time order
WhisperSegment(k, shape) ==
    [text  |-> <<" ", "s">>,
     start |-> 10 * k,
     end   |-> 10 * k + 9,
     words |-> [j \in 1..Len(shape) |->
                  [word |-> shape[j], start |-> 10 * k + 2 * j, end |-> 10 * k + 2 * j + 1]]]

WhisperResults ==
    UNION {{[k \in 1..n |-> WhisperSegment(k, shapes[k])] : shapes \in [1..n -> SegmentShapes]}
              : n \in 0..MaxWhisperSegs}

TransInit ==
    /\ LaneIdle
    /\ SplitIdle
    /\ AuxIdle
    /\ whisper_segments \in WhisperResults
    /\ sentence_segments = <<>>
    /\ trans_pc = "ready"

\* TranscriptionThread.run: processed_result = self._create_sentence_segments(result)
Transcribe ==
    /\ trans_pc = "ready"
    /\ sentence_segments' = CreateSentenceSegments(whisper_segments)
    /\ trans_pc' = "done"
    /\ UNCHANGED whisper_segments
    /\ UNCHANGED laneVars
    /\ UNCHANGED splitVars
    /\ UNCHANGED auxVars

TransNext == Transcribe

TransSpec == TransInit /\ [][TransNext]_vars

----------------------------------------------------------------------------
(* OllamaClient: get_explanation starts one thread per request, all threads  *)
(* share stop_event.  A response is MaxLines lines with a chunk each and then *)
(* the line with "done".  The callbacks are the caller's: on_chunk may raise *)
(* RuntimeError (its widget was deleted).                                    *)

\* requests made of one client
MaxRequests == 2

\* lines with a chunk in one response
MaxLines == 2

\* the thread's position after on_chunk: in the for-loop "except RuntimeError:
\* break", else the next line; in an except clause "pass", then the finally
AfterOnChunk(at, raised) ==
    IF at = "error" \/ raised THEN "finally" ELSE "loop"

\* a thread that skips on_done once stop() was called
AfterFinallySkipStopped(t, log, k) ==
    IF t.stopped THEN log ELSE Append(log, [req |-> k, cb |-> "done"])

\* "finally: on_done()"
AfterFinally(t, log, k) == Append(log, [req |-> k, cb |-> "done"])

ClientInit ==
    /\ SplitIdle
    /\ LaneIdle
    /\ TransIdle
    /\ AuxIdle

\* what the client's steps leave alone: everything but stop_event, threads, calls
ClientFrame ==
    /\ UNCHANGED <<stream, pos, study_mode, pc, ai_stream_buffer, inside_think_tags,
                   main_content_buffer, has_thinking_content, answer, thinking,
                   split_open, split_close, blank_chunk, chat_history>>
    /\ UNCHANGED <<pending_updates, net_pc, net_chunk, ui_pc, ui_i, session,
                   stopped, late, failed, err_routed, chunks_done>>
    /\ UNCHANGED laneVars
    /\ UNCHANGED transVars
    /\ UNCHANGED loadVars
    /\ UNCHANGED dbVars
    /\ UNCHANGED managerVars

\* get_explanation: stop_event.clear(), thread.start().  The widgets ask for a
\* new response when the previous one has finished or has been stopped.
GetExplanation ==
    /\ Len(threads) < MaxRequests
    /\ \A k \in DOMAIN threads : threads[k].pc = "ended" \/ threads[k].stopped
    /\ stop_event' = FALSE
    /\ threads' = Append(threads, [pc |-> "loop", pos |-> 0, stopped |-> FALSE])
    /\ calls' = Append(calls, [req |-> Len(threads) + 1, cb |-> "start"])
    /\ ClientFrame

\* stop(): stop_event.set(), while a response is running
ClientStop ==
    /\ \E k \in DOMAIN threads : threads[k].pc # "ended" /\ ~threads[k].stopped
    /\ stop_event' = TRUE
    /\ threads' = [k \in DOMAIN threads |->
                     IF threads[k].pc # "ended"
                     THEN [threads[k] EXCEPT !.stopped = TRUE] ELSE threads[k]]
    /\ UNCHANGED calls
    /\ ClientFrame

\* one turn of "for line in response.iter_lines()" up to on_chunk: the next
\* line arrives, "if self.stop_event.is_set(): break", the line's chunk; the
\* line after the last chunk has "done"
ThreadLine ==
    \E k \in DOMAIN threads :
        /\ threads[k].pc = "loop"
        /\ threads' = IF stop_event \/ threads[k].pos = MaxLines
                      THEN [threads EXCEPT ![k].pc = "finally"]
                      ELSE [threads EXCEPT ![k].pc = "chunk", ![k].pos = @ + 1]
        /\ UNCHANGED <<stop_event, calls>>
        /\ ClientFrame

\* the request or a line raises: "except RequestException" or "except Exception",
\* either calls on_chunk with the error text
ThreadFail ==
    \E k \in DOMAIN threads :
        /\ threads[k].pc = "loop"
        /\ threads[k].pos < MaxLines
        /\ threads' = [threads EXCEPT ![k].pc = "error"]
        /\ UNCHANGED <<stop_event, calls>>
        /\ ClientFrame

\* on_chunk(chunk), which returns or raises RuntimeError
ThreadOnChunk ==
    \E k \in DOMAIN threads : \E raised \in BOOLEAN :
        /\ threads[k].pc \in {"chunk", "error"}
        /\ calls' = Append(calls, [req |-> k, cb |-> "chunk"])
        /\ threads' = [threads EXCEPT ![k].pc = AfterOnChunk(threads[k].pc, raised)]
        /\ UNCHANGED stop_event
        /\ ClientFrame

\* "finally: on_done()" (a RuntimeError of on_done is caught); the thread ends
ThreadOnDone ==
    \E k \in DOMAIN threads :
        /\ threads[k].pc = "finally"
        /\ calls' = AfterFinally(threads[k], calls, k)
        /\ threads' = [threads EXCEPT ![k].pc = "ended"]
        /\ UNCHANGED stop_event
        /\ ClientFrame

ClientNext ==
    \/ GetExplanation
    \/ ClientStop
    \/ ThreadLine
    \/ ThreadFail
    \/ ThreadOnChunk
    \/ ThreadOnDone

ClientSpec == ClientInit /\ [][ClientNext]_vars

----------------------------------------------------------------------------
(* Loading the Whisper model: TranscriptionService.load_model_with_retry and *)
(* ModelLoadingThread.run.  A text is the set of the marks that occur in it: *)
(* an exception text str(e) as raised, a message in lower case as            *)
(* on_loading_complete reads it (message.lower()).                           *)

\* "max_retries=3"
max_retries == 3

\* str(e) of the exceptions whisper.load_model may raise
ErrorDetails ==
    {{"No module named"}, {"Connection"}, {"Network"}, {"timeout"}, {"Permission"},
     {"Access"}, {"No space"}, {"Disk"}, {"CUDA"}, {"checksum"}, {}}

\* the if-chain of ModelLoadingThread.run that picks the error message
ErrorCategory(error_details) ==
    IF "No module named" \in error_details THEN "dependencies"
    ELSE IF error_details \cap {"Connection", "Network", "timeout"} # {} THEN "network"
    ELSE IF error_details \cap {"Permission", "Access"} # {} THEN "permission"
    ELSE IF error_details \cap {"No space", "Disk"} # {} THEN "disk"
    ELSE IF error_details \cap {"CUDA", "GPU"} # {} THEN "gpu"
    ELSE IF error_details \cap {"corrupted", "checksum"} # {} THEN "corrupted"
    ELSE "other"

\* the marks of the message's fixed part, in lower case:
\* "Network error while downloading model ... check your internet connection",
\* "Permission denied while downloading/saving model ...",
\* "Insufficient disk space to download model ...", ...
MessageTemplate(category) ==
    CASE category = "dependencies" -> {"dependencies"}
      [] category = "network"      -> {"network", "download", "connection"}
      [] category = "permission"   -> {"permission", "download"}
      [] category = "disk"         -> {"disk", "download"}
      [] category = "gpu"          -> {"gpu", "cuda"}
      [] category = "corrupted"    -> {"corrupted", "cache"}
      [] OTHER                     -> {"failed to load"}

\* str.lower() of a mark
LowerMark(m) ==
    CASE m = "No module named" -> "no module named"
      [] m = "Connection" -> "connection"
      [] m = "Network" -> "network"
      [] m = "Access" -> "access"
      [] m = "Disk" -> "disk"
      [] m = "Permission" -> "permission"
      [] m = "No space" -> "no space"
      [] m = "CUDA" -> "cuda"
      [] OTHER -> m

\* error_msg.lower(): the fixed part followed by "Error: {error_details}"
ErrorMessage(error_details) ==
    MessageTemplate(ErrorCategory(error_details))
        \cup {LowerMark(m) : m \in error_details}

\* "is_network_error = any(keyword in message.lower() for keyword in
\*  ['network', 'connection', 'timeout', 'download'])"
IsNetworkError(error_details) ==
    ErrorMessage(error_details) \cap {"network", "connection", "timeout", "download"} # {}

LoadInit ==
    /\ SplitIdle
    /\ LaneIdle
    /\ TransIdle
    /\ AuxIdle

\* what the loader's steps leave alone
LoadFrame ==
    /\ UNCHANGED splitVars
    /\ UNCHANGED laneVars
    /\ UNCHANGED transVars
    /\ UNCHANGED clientVars
    /\ UNCHANGED dbVars
    /\ UNCHANGED managerVars

\* load_model_with_retry: attempt_load(0) starts the first ModelLoadingThread
LoadModelWithRetry ==
    /\ load_pc = "idle"
    /\ load_pc' = "loading"
    /\ load_attempt' = 0
    /\ UNCHANGED <<load_log, completions>>
    /\ LoadFrame

\* ModelLoadingThread.run succeeds: loading_complete.emit(True, ...), and
\* on_loading_complete calls completion_callback(True, message)
LoadSucceeds ==
    /\ load_pc = "loading"
    /\ load_log' = Append(load_log, [success |-> TRUE, error_details |-> {}])
    /\ completions' = Append(completions, TRUE)
    /\ load_pc' = "done"
    /\ UNCHANGED load_attempt
    /\ LoadFrame

\* ModelLoadingThread.run fails: loading_complete.emit(False, error_msg), and
\* on_loading_complete retries (attempt_load(attempt + 1)) or gives up
LoadFails ==
    /\ load_pc = "loading"
    /\ \E error_details \in ErrorDetails :
          /\ load_log' = Append(load_log, [success |-> FALSE,
                                           error_details |-> error_details])
          /\ IF IsNetworkError(error_details) /\ load_attempt < max_retries - 1
             THEN /\ load_attempt' = load_attempt + 1
                  /\ UNCHANGED <<load_pc, completions>>
             ELSE /\ completions' = Append(completions, FALSE)
                  /\ load_pc' = "done"
                  /\ UNCHANGED load_attempt
    /\ LoadFrame

LoadNext == LoadModelWithRetry \/ LoadSucceeds \/ LoadFails

LoadSpec == LoadInit /\ [][LoadNext]_vars

----------------------------------------------------------------------------
(* NotesDatabase.  A SELECT without ORDER BY returns its rows in an order    *)
(* SQLite leaves undefined: fetchone() is any of the matching rows.          *)

\* calls made on one database
MaxDbCalls == 4

DbProjects == {1, 2}

\* segment texts of a transcription: one sentence, or two sentences of which
\* the second may repeat the first
DbSegmentLists == {<<"s">>, <<"s", "t">>, <<"s", "s">>}

\* the notes argument of save_transcription_and_notes: a dict by sentence text
DbNotesArgs == {<<>>, [x \in {"s"} |-> "old"]}

DbContents == {"c", "d"}

\* the ids of the sentences of project p
SentenceIdsOf(sentences, p) == {r.id : r \in {q \in sentences : q.project_id = p}}

\* "DELETE FROM notes WHERE sentence_id IN (SELECT id FROM sentences WHERE project_id = ?)"
DeleteNotesOf(notes, sentences, p) ==
    {n \in notes : n.sentence_id \notin SentenceIdsOf(sentences, p)}

\* "DELETE FROM sentences WHERE project_id = ?"
DeleteSentencesOf(sentences, p) == {r \in sentences : r.project_id # p}

\* number of the first i segments that have a note in the dict
NotedUpTo(segs, notes, i) == Cardinality({j \in 1..i : segs[j] \in DOMAIN notes})

\* the rows get_note(sentence_text)'s SELECT ... JOIN matches
NoteRowsOf(notes, sentences, sentence_text) ==
    {n \in notes : \E r \in sentences :
                      r.id = n.sentence_id /\ r.sentence_text = sentence_text}

DbInit ==
    /\ SplitIdle
    /\ LaneIdle
    /\ TransIdle
    /\ ClientIdle
    /\ LoadIdle
    /\ ManagerIdle
    /\ db_projects = DbProjects
    /\ db_sentences = {}
    /\ db_notes = {}
    /\ db_seq = [sentences |-> 0, notes |-> 0]
    /\ db_last = [op |-> "none"]
    /\ db_calls = 0

\* what the database calls leave alone
DbFrame ==
    /\ UNCHANGED splitVars
    /\ UNCHANGED laneVars
    /\ UNCHANGED transVars
    /\ UNCHANGED clientVars
    /\ UNCHANGED loadVars
    /\ UNCHANGED managerVars

\* save_transcription_and_notes(project_id, transcription_result, notes)
SaveTranscriptionAndNotes ==
    /\ db_calls < MaxDbCalls
    /\ \E p \in db_projects, segs \in DbSegmentLists, notes \in DbNotesArgs :
          LET kept_notes     == DeleteNotesOf(db_notes, db_sentences, p)
              kept_sentences == DeleteSentencesOf(db_sentences, p)
              new_sentences  ==
                  {[id |-> db_seq.sentences + i, sentence_text |-> segs[i],
                    project_id |-> p] : i \in 1..Len(segs)}
              new_notes ==
                  {[id |-> db_seq.notes + NotedUpTo(segs, notes, i),
                    sentence_id |-> db_seq.sentences + i,
                    note_text |-> notes[segs[i]]]
                       : i \in {j \in 1..Len(segs) : segs[j] \in DOMAIN notes}}
          IN  /\ db_sentences' = kept_sentences \cup new_sentences
              /\ db_notes' = kept_notes \cup new_notes
              /\ db_seq' = [sentences |-> db_seq.sentences + Len(segs),
                            notes |-> db_seq.notes + Cardinality(new_notes)]
    /\ db_last' = [op |-> "save_transcription_and_notes"]
    /\ db_calls' = db_calls + 1
    /\ UNCHANGED db_projects
    /\ DbFrame

\* save_note(sentence_text, content): find or create the sentence, then
\* update its note or insert one
SaveNote ==
    /\ db_calls < MaxDbCalls
    /\ \E sentence_text \in {"s", "t"}, content \in DbContents :
          LET matching == {r \in db_sentences : r.sentence_text = sentence_text}
              last == [op |-> "save_note", sentence_text |-> sentence_text,
                       content |-> content,
                       rows_before |->
                           Cardinality(NoteRowsOf(db_notes, db_sentences, sentence_text))]
          IN  /\ db_last' = last
              /\ IF matching = {}
                 THEN /\ db_sentences' = db_sentences \cup
                             {[id |-> db_seq.sentences + 1,
                               sentence_text |-> sentence_text, project_id |-> 0]}
                      /\ db_notes' = db_notes \cup
                             {[id |-> db_seq.notes + 1,
                               sentence_id |-> db_seq.sentences + 1,
                               note_text |-> content]}
                      /\ db_seq' = [sentences |-> db_seq.sentences + 1,
                                    notes |-> db_seq.notes + 1]
                 ELSE \E sentence_row \in matching :
                        LET existing == {n \in db_notes : n.sentence_id = sentence_row.id}
                        IN  /\ UNCHANGED db_sentences
                            /\ IF existing # {}
                               THEN /\ \E e \in existing :
                                          db_notes' = (db_notes \ {e}) \cup
                                              {[e EXCEPT !.note_text = content]}
                                    /\ UNCHANGED db_seq
                               ELSE /\ db_notes' = db_notes \cup
                                           {[id |-> db_seq.notes + 1,
                                             sentence_id |-> sentence_row.id,
                                             note_text |-> content]}
                                    /\ db_seq' = [db_seq EXCEPT !.notes = @ + 1]
    /\ db_calls' = db_calls + 1
    /\ UNCHANGED db_projects
    /\ DbFrame

\* delete_project(project_id) of an existing project
DeleteProject ==
    /\ db_calls < MaxDbCalls
    /\ \E p \in db_projects :
          /\ db_notes' = DeleteNotesOf(db_notes, db_sentences, p)
          /\ db_sentences' = DeleteSentencesOf(db_sentences, p)
          /\ db_projects' = db_projects \ {p}
    /\ db_last' = [op |-> "delete_project"]
    /\ db_calls' = db_calls + 1
    /\ UNCHANGED db_seq
    /\ DbFrame

DbNext == SaveTranscriptionAndNotes \/ SaveNote \/ DeleteProject

DbSpec == DbInit /\ [][DbNext]_vars

----------------------------------------------------------------------------
(* SidebarManager.  The state of the manager is passed through its methods   *)
(* as a record [active, widgets, visible]; an action is one call from the    *)
(* application, one step of a sidebar's stream thread or one timer tick.     *)

\* SidebarWidgets created in one run
MaxSidebars == 3

\* updates queued in one sidebar
MaxPending == 2

\* the sentences sidebars are shown for; show_notes_sidebar passes ""
SidebarSentences == {"", "a", "b"}

\* the notes dicts of load_notes, as the list of their keys in order
NotesDicts == {<<>>, <<"a">>, <<"a", "b">>, <<"", "a">>}

\* SidebarWidget.__init__: the update timer is started
NewSidebar(sentence) ==
    [sentence |-> sentence, update_timer |-> TRUE, stop_event |-> FALSE,
     pending_updates |-> 0, thread |-> "idle",
     cleaned |-> FALSE, processed_closed |-> FALSE]

\* SidebarWidget.cleanup
Cleanup(w) ==
    [w EXCEPT !.update_timer = FALSE, !.stop_event = TRUE,
              !.pending_updates = 0, !.cleaned = TRUE]

\* the dict without one key
Pop(d, key) == [k \in DOMAIN d \ {key} |-> d[k]]

\* SidebarManager.close_sidebar(sentence); the sentence "none" stands for
\* the default None, and "" is as false as None
CloseSidebarOf(st, sentence) ==
    LET popped == sentence \notin {"none", ""} /\ sentence \in DOMAIN st.active
        active == IF popped THEN Pop(st.active, sentence) ELSE st.active
    IN  [active  |-> active,
         widgets |-> IF popped
                     THEN [st.widgets EXCEPT ![st.active[sentence]] = Cleanup(@)]
                     ELSE st.widgets,
         visible |-> IF DOMAIN active = {} THEN FALSE ELSE st.visible]

\* SidebarManager.close_all_sidebars: close_sidebar for each key of the dict
RECURSIVE CloseKeys(_, _)
CloseKeys(st, keys) ==
    IF keys = {} THEN st
    ELSE LET k == CHOOSE x \in keys : TRUE
         IN  CloseKeys(CloseSidebarOf(st, k), keys \ {k})

CloseAllSidebarsOf(st) == CloseKeys(st, DOMAIN st.active)

\* SidebarManager.show_sidebar(sentence)
ShowSidebarOf(st, sentence) ==
    LET closed == CloseAllSidebarsOf(st)
        index  == Len(closed.widgets) + 1
    IN  [active  |-> [k \in DOMAIN closed.active \cup {sentence} |->
                         IF k = sentence THEN index ELSE closed.active[k]],
         widgets |-> Append(closed.widgets, NewSidebar(sentence)),
         visible |-> TRUE]

\* the loop of load_notes over the items of the dict
RECURSIVE ShowEach(_, _)
ShowEach(st, keys) ==
    IF keys = <<>> THEN st
    ELSE ShowEach(ShowSidebarOf(st, Head(keys)), Tail(keys))

\* SidebarManager.load_notes(notes)
LoadNotesOf(st, keys) == ShowEach(CloseAllSidebarsOf(st), keys)

ManagerState ==
    [active |-> active_sidebars, widgets |-> sidebars, visible |-> manager_visible]

SetManager(st) ==
    /\ active_sidebars' = st.active
    /\ sidebars' = st.widgets
    /\ manager_visible' = st.visible

ManagerInit ==
    /\ SplitIdle
    /\ LaneIdle
    /\ TransIdle
    /\ ClientIdle
    /\ LoadIdle
    /\ DbIdle
    /\ ManagerIdle

\* what the sidebar manager and its sidebars leave alone
ManagerFrame ==
    /\ UNCHANGED splitVars
    /\ UNCHANGED laneVars
    /\ UNCHANGED transVars
    /\ UNCHANGED clientVars
    /\ UNCHANGED loadVars
    /\ UNCHANGED dbVars

ShowSidebar ==
    /\ \E sentence \in SidebarSentences :
          /\ Len(sidebars) < MaxSidebars
          /\ SetManager(ShowSidebarOf(ManagerState, sentence))
    /\ ManagerFrame

CloseSidebar ==
    /\ \E sentence \in SidebarSentences \cup {"none"} :
          SetManager(CloseSidebarOf(ManagerState, sentence))
    /\ ManagerFrame

CloseAllSidebars ==
    /\ SetManager(CloseAllSidebarsOf(ManagerState))
    /\ ManagerFrame

LoadNotes ==
    /\ \E notes \in NotesDicts :
          /\ Len(sidebars) + Len(notes) <= MaxSidebars
          /\ SetManager(LoadNotesOf(ManagerState, notes))
    /\ ManagerFrame

\* get_ai_explanation of a sidebar on screen: 'show_ai_buttons' is queued
\* and the stream thread started
SidebarGetAiExplanation ==
    /\ \E s \in DOMAIN active_sidebars :
          LET i == active_sidebars[s]
          IN  /\ sidebars[i].thread = "idle"
              /\ sidebars[i].pending_updates < MaxPending
              /\ sidebars' = [sidebars EXCEPT ![i].thread = "running",
                                              ![i].stop_event = FALSE,
                                              ![i].pending_updates = @ + 1]
    /\ UNCHANGED <<active_sidebars, manager_visible>>
    /\ ManagerFrame

\* the stream thread of a sidebar calls on_chunk: queue_ui_update appends.
\* A thread that passed its stop test before stop() still makes this call.
SidebarOnChunk ==
    /\ \E i \in DOMAIN sidebars :
          /\ sidebars[i].thread = "running"
          /\ sidebars[i].pending_updates < MaxPending
          /\ sidebars' = [sidebars EXCEPT ![i].pending_updates = @ + 1]
    /\ UNCHANGED <<active_sidebars, manager_visible>>
    /\ ManagerFrame

\* the stream thread ends (last line, stop seen, or failure): on_done queues
\* 'finish_ai'
SidebarOnDone ==
    /\ \E i \in DOMAIN sidebars :
          /\ sidebars[i].thread = "running"
          /\ sidebars[i].pending_updates < MaxPending
          /\ sidebars' = [sidebars EXCEPT ![i].thread = "idle",
                                          ![i].pending_updates = @ + 1]
    /\ UNCHANGED <<active_sidebars, manager_visible>>
    /\ ManagerFrame

\* the update timer of a sidebar fires: process_pending_updates
SidebarTimeout ==
    /\ \E i \in DOMAIN sidebars :
          /\ sidebars[i].update_timer
          /\ sidebars[i].pending_updates > 0
          /\ sidebars' =
                [sidebars EXCEPT
                    ![i].pending_updates = 0,
                    ![i].processed_closed =
                        @ \/ (\A s \in DOMAIN active_sidebars : active_sidebars[s] # i)]
    /\ UNCHANGED <<active_sidebars, manager_visible>>
    /\ ManagerFrame

ManagerNext ==
    \/ ShowSidebar
    \/ CloseSidebar
    \/ CloseAllSidebars
    \/ LoadNotes
    \/ SidebarGetAiExplanation
    \/ SidebarOnChunk
    \/ SidebarOnDone
    \/ SidebarTimeout

ManagerSpec == ManagerInit /\ [][ManagerNext]_vars

----------------------------------------------------------------------------
(* Claims about the lane packer.  They read the result of the latest call,   *)
(* zone_assignments, and the inputs of that call.                            *)

Called == call_rect # NoRect

Assigned == DOMAIN zone_assignments

\* duration of the latest call
CallDuration == Max(audio_duration, 1)

\* the intermediate values of the latest call, computed on a fresh layout
CallPacked ==
    Packed(annotations, audio_duration, call_rect,
           ComputeLayout(<<call_rect.width, call_rect.height>>))

\* the unscaled bubble_height of segment i in the latest call
BubbleHeight(i) == CallPacked.precomputed[CallPacked.at[i]].height

CallNaturalTotal == NaturalTotal(CallPacked.lane_max_heights)

SameLane(i, j) == i # j /\ zone_assignments[i].zone = zone_assignments[j].zone

\* C7: no two assignments of one lane overlap or come closer than buffer_px:
\* one of them ends at least buffer_px before the other starts.
C7_NoOverlapInLane ==
    \A i \in Assigned : \A j \in Assigned :
        SameLane(i, j) =>
            \/ zone_assignments[i].x_position + zone_assignments[i].width
                   + HUnits(buffer_px, CallDuration) <= zone_assignments[j].x_position
            \/ zone_assignments[j].x_position + zone_assignments[j].width
                   + HUnits(buffer_px, CallDuration) <= zone_assignments[i].x_position

\* C7 witness: two segments were placed in the same lane
C7_Witness ==
    \E i \in Assigned : \E j \in Assigned : SameLane(i, j)

\* the lowest bottom edge of the laid-out lanes: y_position + the lane's
\* scaled height, the height of its tallest bubble (units of 1/natural_total px)
LanesBottom ==
    MaxOf({zone_assignments[i].y_position + zone_assignments[i].height : i \in Assigned})

\* C8: the lanes exactly fill the available height: from the top of the first
\* lane, the scaled lane heights and the spacings between them add up to
\* available_height.
C8_LanesFillAvailableHeight ==
    (Called /\ Assigned # {}) =>
        LanesBottom - (call_rect.top + track_margin_top) * CallNaturalTotal
            = AvailableHeight(call_rect) * CallNaturalTotal

\* C9 as claimed: assignments of one lane have equal y_position and equal height.
C9_SameLaneSameYAndHeight ==
    \A i \in Assigned : \A j \in Assigned :
        SameLane(i, j) =>
            /\ zone_assignments[i].y_position = zone_assignments[j].y_position
            /\ zone_assignments[i].height = zone_assignments[j].height

\* C9 amended: assignments of one lane have equal y_position, and the height
\* of each is its own bubble height times the common scale
\* available_height / natural_total, so the heights of two bubbles of a lane
\* differ by the difference of their bubble heights times that scale.
C9_SameLaneSameYOwnHeight ==
    LET p == CallPacked
        bubble_height == [i \in Assigned |-> p.precomputed[p.at[i]].height]
    IN  \A i \in Assigned : \A j \in Assigned :
            SameLane(i, j) =>
                /\ zone_assignments[i].y_position = zone_assignments[j].y_position
                /\ zone_assignments[i].height - zone_assignments[j].height
                       = (bubble_height[i] - bubble_height[j])
                             * AvailableHeight(call_rect)

\* C9 witness: two segments of different text height in one lane, scaled
C9_Witness ==
    \E i \in Assigned : \E j \in Assigned :
        /\ SameLane(i, j)
        /\ BubbleHeight(i) # BubbleHeight(j)
        /\ AvailableHeight(call_rect) > 0
        /\ zone_assignments[i].height # zone_assignments[j].height

\* C10: the result of a call depends only on the segments, the duration and
\* the rectangle: whatever calls came before, it is what a widget with an
\* empty layout cache returns for them, so two calls with the same inputs
\* return the same assignments.
C10_ResultIndependentOfCache ==
    Called =>
        zone_assignments
            = Distribute(annotations, audio_duration, call_rect,
                         ComputeLayout(<<call_rect.width, call_rect.height>>))

\* C10 witness: a call for a rectangle size that was laid out before, with a
\* call for another size in between
C10_Witness ==
    /\ Called
    /\ revisit
    /\ Cardinality(DOMAIN layout_cache) >= 2
    /\ zone_assignments # <<>>

----------------------------------------------------------------------------
(* Claims about the order of lane assignment *)

\* segment j is taken before segment i: sorted() by start_time is stable
TakenBefore(j, i) ==
    \/ annotations[j].start_time < annotations[i].start_time
    \/ (annotations[j].start_time = annotations[i].start_time /\ j < i)

\* the emitted spans of i and j intersect or are closer than buffer_px
ConflictOut(i, j) ==
    ~(\/ zone_assignments[i].x_position + zone_assignments[i].width
             + HUnits(buffer_px, CallDuration) <= zone_assignments[j].x_position
      \/ zone_assignments[j].x_position + zone_assignments[j].width
             + HUnits(buffer_px, CallDuration) <= zone_assignments[i].x_position)

ZonesUsed == {zone_assignments[i].zone : i \in Assigned}

\* C11: first-fit in ascending start_time order.  Every segment conflicts
\* with no segment taken before it in its own lane, and in every lane of lower
\* index it conflicts with a segment taken before it.  Hence segments without
\* any conflict are all in lane 0; three segments that start at time 0
\* occupy at least 2 lanes; and a segment that conflicts with nothing taken
\* before it in lane 0 is in lane 0.
C11_FirstFit ==
    /\ \A i \in Assigned :
          /\ \A j \in Assigned :
                (TakenBefore(j, i) /\ zone_assignments[j].zone = zone_assignments[i].zone)
                    => ~ConflictOut(i, j)
          /\ \A y \in 0..(zone_assignments[i].zone - 1) :
                \E j \in Assigned :
                    /\ TakenBefore(j, i)
                    /\ zone_assignments[j].zone = y
                    /\ ConflictOut(i, j)
    /\ (\A i \in Assigned : \A j \in Assigned : i # j => ~ConflictOut(i, j))
          => \A i \in Assigned : zone_assignments[i].zone = 0
    /\ Cardinality({i \in Assigned : annotations[i].start_time = 0}) >= 3
          => Cardinality(ZonesUsed) >= 2
    /\ \A i \in Assigned :
          (\A j \in Assigned :
              (TakenBefore(j, i) /\ zone_assignments[j].zone = 0) => ~ConflictOut(i, j))
              => zone_assignments[i].zone = 0

\* C11 witness: three segments that start at time 0 in three lanes, and a
\* fourth, later one that shares lane 0 with the first
C11_Witness ==
    /\ Len(annotations) = 4
    /\ \A i \in 1..3 : annotations[i].start_time = 0 /\ zone_assignments[i].zone = i - 1
    /\ annotations[4].start_time > 0
    /\ zone_assignments[4].zone = 0

----------------------------------------------------------------------------
(* Claims about degenerate layout inputs *)

----------------------------------------------------------------------------
(* Claims about cancellation, failures and successive responses *)

\* C13: no chunk of a response is processed after the user has stopped it.
C13_NoChunkProcessedAfterStop == ~late

EndsWith(s, suffix) ==
    Len(s) >= Len(suffix) /\ SubSeq(s, Len(s) - Len(suffix) + 1, Len(s)) = suffix

\* C14: a failed request is reported as one last chunk, and once that chunk is
\* processed its text is in the answer sink (or still held for it) and not in
\* the thinking sink, also when the failure came inside a thinking block.
C14_ErrorChunkToAnswer ==
    /\ \A k \in 1..Len(pending_updates) :
          (failed /\ pending_updates[k].data = ErrorText) =>
              \A m \in (k + 1)..Len(pending_updates) :
                  pending_updates[m].action # "process_chunk"
    /\ (failed /\ err_routed /\ ~stopped) =>
          /\ EndsWith(answer \o main_content_buffer, ErrorText)
          /\ FindSub(thinking, ErrorText) = 0

\* C15: when a response starts, before its first chunk is processed, the
\* splitter is in the state of a new widget: scanning, raw buffer and answer
\* buffer empty.
C15_FreshStateEachSession ==
    (pc = "streaming" /\ chunks_done = 0) =>
        /\ ~inside_think_tags
        /\ ai_stream_buffer = <<>>
        /\ main_content_buffer = <<>>

----------------------------------------------------------------------------
(* Claims about transcription *)

\* the words of the input that are not blank
SpokenWords ==
    {w \in UNION {{whisper_segments[k].words[j] : j \in 1..Len(whisper_segments[k].words)}
                     : k \in 1..Len(whisper_segments)} : Strip(w.word) # <<>>}

\* the output sentences that contain word w
SentencesOf(w) ==
    {m \in 1..Len(sentence_segments) :
        \E j \in 1..Len(sentence_segments[m].words) : sentence_segments[m].words[j] = w}

\* C16: the sentence segments are in time order (start times never decrease
\* along the list) and every non-blank word is in exactly one of them.
C16_SentencesInTimeOrder ==
    trans_pc = "done" =>
        /\ \A m \in 1..(Len(sentence_segments) - 1) :
              sentence_segments[m].start <= sentence_segments[m + 1].start
        /\ \A w \in SpokenWords : Cardinality(SentencesOf(w)) = 1

----------------------------------------------------------------------------
(* Claims about the order and the handling of '<' in the splitter *)

\* a is s with some characters left out, the order kept
RECURSIVE IsSubsequence(_, _)
IsSubsequence(a, s) ==
    IF a = <<>> THEN TRUE
    ELSE IF s = <<>> THEN FALSE
    ELSE IF Head(a) = Head(s) THEN IsSubsequence(Tail(a), Tail(s))
    ELSE IsSubsequence(a, Tail(s))

\* C17: in every state the text the answer sink has received, followed by the
\* answer text still held back, is in the order of the delivered part of the
\* response, and so is the text the thinking sink has received.
C17_PerSinkOrder ==
    /\ IsSubsequence(answer \o main_content_buffer, Take(stream, pos))
    /\ IsSubsequence(thinking, Take(stream, pos))

\* C17 witness: "Hello <think>reasoning here</think> world" delivered with
\* both sinks filled, the opening literal cut by a chunk boundary
C17_Witness ==
    /\ pc = "done"
    /\ stream = StreamHello
    /\ split_open
    /\ answer = RefAnswer(stream)
    /\ thinking = RefThinking(stream)

\* position of the first '<' of the response (0: none)
FirstLt == FindSub(stream, <<"<">>)

\* C19: once the first '<' of the response has been delivered, all the text
\* before it is in the answer sink.
C19_TextBeforeLtFlushed ==
    (FirstLt # 0 /\ pos >= FirstLt) => StartsWith(answer, Take(stream, FirstLt - 1))

\* the response begins with a '<' that does not start "<think>" and has at
\* least 6 characters after it
PlainLtFirst ==
    /\ Len(stream) >= OpenLen
    /\ Head(stream) = "<"
    /\ ~StartsWith(stream, OpenTag)

\* the state after the one chunk s on a new splitter
OneChunk(s) ==
    AppendChunk([buf |-> <<>>, inside |-> FALSE, main |-> <<>>, has |-> FALSE,
                 ans |-> <<>>, thk |-> <<>>], s)

\* C20: for a response that begins with such a '<'.  Until 7 characters are
\* delivered the '<' waits in the raw buffer; from then on it is the first
\* character of the answer output; when "<think>" follows it directly, that
\* tag is recognised as soon as it is complete and the answer output holds
\* the one '<' only; and delivered as one chunk the response gives what its
\* rest gives on a new splitter, with the '<' put in front of the answer output.
C20_PlainLtIsAnswerText ==
    PlainLtFirst =>
        /\ (pc = "streaming" /\ pos \in 1..(OpenLen - 1)) =>
              /\ ai_stream_buffer = Take(stream, pos)
              /\ answer \o main_content_buffer = <<>>
              /\ ~inside_think_tags
        /\ pos >= OpenLen =>
              /\ answer \o main_content_buffer # <<>>
              /\ Head(answer \o main_content_buffer) = "<"
        /\ pos = OpenLen => ~inside_think_tags
        /\ (pc = "streaming" /\ StartsWith(Tail(stream), OpenTag) /\ pos = OpenLen + 1) =>
              /\ inside_think_tags
              /\ answer \o main_content_buffer = <<"<">>
        /\ LET whole == OneChunk(stream)
               rest  == OneChunk(Tail(stream))
           IN  /\ whole.ans \o whole.main = <<"<">> \o rest.ans \o rest.main
               /\ whole.thk = rest.thk
               /\ whole.buf = rest.buf
               /\ whole.inside = rest.inside

\* C20 witness: "<<think>A" was delivered: the first '<' is in the answer
\* output and the text after the tag in the thinking sink
C20_Witness ==
    /\ stream = <<"<">> \o OpenTag \o <<"A">>
    /\ pos = Len(stream)
    /\ answer \o main_content_buffer = <<"<">>
    /\ thinking = <<"A">>
    /\ inside_think_tags
    /\ pc = "streaming"

----------------------------------------------------------------------------
(* Claims about the partial-word hold-back *)

\* C18: after every chunk of a response without '<', the answer sink and the
\* held-back buffer together hold what was delivered, and the held-back
\* buffer has no boundary character and at most 100 characters.
C18_HeldBackCapped ==
    (pc = "streaming" /\ FindSub(stream, <<"<">>) = 0) =>
        /\ answer \o main_content_buffer = Take(stream, pos)
        /\ \A i \in 1..Len(main_content_buffer) : main_content_buffer[i] \notin BoundaryChars
        /\ Len(main_content_buffer) <= FlushCap

----------------------------------------------------------------------------
(* Claims about the thinking block *)

\* the chunk delivered by a step
StepChunk == SubSeq(stream, pos + 1, pos')

\* C21: a chunk that arrives inside a thinking block and leaves the raw buffer
\* without a complete "</think>": the whole buffer goes to the thinking sink
\* unless it is blank, the raw buffer is left empty, the splitter stays inside
\* the block and the answer side is untouched.  A "<think>" in it is thinking
\* text like any other.
C21_UnclosedThinkingEmitted ==
    [][(pc = "streaming" /\ pos' > pos /\ inside_think_tags
         /\ FindSub(ai_stream_buffer \o StepChunk, CloseTag) = 0)
        => /\ inside_think_tags'
           /\ ai_stream_buffer' = <<>>
           /\ thinking' = IF NonBlank(ai_stream_buffer \o StepChunk)
                           THEN thinking \o ai_stream_buffer \o StepChunk
                           ELSE thinking
           /\ answer' = answer
           /\ main_content_buffer' = main_content_buffer
           /\ has_thinking_content' = has_thinking_content]_vars

\* C21 witness: a second "<think>" arrived inside the thinking block and is
\* in the thinking sink, the splitter still inside the block, the buffer empty
C21_Witness ==
    /\ pc = "streaming"
    /\ inside_think_tags
    /\ ai_stream_buffer = <<>>
    /\ FindSub(thinking, OpenTag) # 0
    /\ FindSub(Drop(stream, OpenLen), OpenTag) # 0

----------------------------------------------------------------------------
(* Claims about the bubble width *)

\* max_bubble_width of the latest call's rect, in fifths of a pixel
CallMaxBubbleWidth5 == ComputeLayout(<<call_rect.width, call_rect.height>>).max_bubble_width

\* the text's single-line width with its padding, in pixels
NaturalWidth(i) == CharAdvance * annotations[i].text + 2 * text_margin

----------------------------------------------------------------------------
(* Claims about the callbacks of OllamaClient *)

\* the places in the history of the calls of callback cb for request k
CallsOf(k, cb) == {i \in DOMAIN calls : calls[i].req = k /\ calls[i].cb = cb}

\* C23: for every request, on_done is called exactly once by the time its
\* thread has ended and not before, and after every on_chunk of that request,
\* however the response ended.
C23_OnDoneExactlyOnce ==
    \A k \in DOMAIN threads :
        /\ Cardinality(CallsOf(k, "done")) = IF threads[k].pc = "ended" THEN 1 ELSE 0
        /\ \A i \in CallsOf(k, "done") : \A j \in CallsOf(k, "chunk") : j < i

\* C23 witness: a response was stopped after its first chunk and its thread
\* has ended, and another response's thread has ended after a failure or a
\* RuntimeError of on_chunk before the response was complete
C23_Witness ==
    \E k \in DOMAIN threads : \E m \in DOMAIN threads :
        /\ threads[k].pc = "ended" /\ threads[k].stopped
        /\ Cardinality(CallsOf(k, "chunk")) = 1
        /\ threads[m].pc = "ended" /\ ~threads[m].stopped
        /\ threads[m].pos < MaxLines
        /\ CallsOf(m, "chunk") # {}

\* C26: once a later request has been started, no earlier request's thread
\* calls on_chunk any more, and never are two threads about to call on_chunk.
C26_StoppedStaysStopped ==
    /\ \A i \in DOMAIN calls : \A j \in DOMAIN calls :
          (i < j /\ calls[i].cb = "start" /\ calls[j].cb = "chunk")
              => calls[i].req <= calls[j].req
    /\ Cardinality({k \in DOMAIN threads : threads[k].pc \in {"chunk", "error"}}) <= 1

----------------------------------------------------------------------------
(* Claims about loading the model *)

\* load attempts started so far
AttemptsStarted == Len(load_log) + IF load_pc = "loading" THEN 1 ELSE 0

\* C24: an attempt is followed by another one only when it failed with a
\* network error; at most max_retries attempts are started; and
\* completion_callback is called exactly once, when the loading is over: with
\* success after a successful attempt, with failure after a failed one.
C24_RetryOnlyNetworkBounded ==
    /\ \A i \in 1..(AttemptsStarted - 1) :
          ~load_log[i].success /\ ErrorCategory(load_log[i].error_details) = "network"
    /\ AttemptsStarted <= max_retries
    /\ Len(completions) = IF load_pc = "done" THEN 1 ELSE 0
    /\ load_pc = "done" => completions[1] = load_log[Len(load_log)].success

----------------------------------------------------------------------------
(* Claims about the queue of UI updates *)

\* the number of chunks text s is sent in (see ChunkLens)
RECURSIVE TokenCount(_)
TokenCount(s) ==
    IF s = <<>> THEN 0
    ELSE IF StartsWith(s, OpenTag) THEN 1 + TokenCount(Drop(s, Len(OpenTag)))
    ELSE 1 + TokenCount(Tail(s))

\* the 'process_chunk' updates the thread of this response has queued
ChunksQueued ==
    TokenCount(Take(stream, pos)) - (IF net_pc = "chunk" THEN 1 ELSE 0)
        + (IF failed /\ net_pc # "error" THEN 1 ELSE 0)

\* C25: no queued update is processed twice, and none is lost: once the
\* thread has ended and the queue is empty and not being processed, every
\* chunk it queued has been processed and so has its 'finish_ai'.
C25_NoUpdateLost ==
    /\ chunks_done <= ChunksQueued
    /\ (session > 0 /\ net_pc = "idle" /\ ui_pc = "idle" /\ pending_updates = <<>>)
          => /\ chunks_done = ChunksQueued
             /\ pc = "done"

----------------------------------------------------------------------------
(* Claims about the saved conversation *)

\* C27: in study mode, when a response with answer text has been finished,
\* the last assistant message of chat_history is the complete answer text of
\* that response, the last word included.
C27_SavedMessageComplete ==
    (study_mode /\ pc = "done" /\ NonBlank(answer)) =>
        /\ chat_history # <<>>
        /\ chat_history[Len(chat_history)] = answer

----------------------------------------------------------------------------
(* Claims about the lane test *)

\* the lane test as specified: the item is compared with the most recently
\* placed span of the lane only
FitsLastSpan(item, lane, duration) == ~Conflicts(item, lane[Len(lane)], duration)

\* the greedy loop with that test: the zones of precomputed[k..] given the lanes
RECURSIVE ZonesByLastSpan(_, _, _, _)
ZonesByLastSpan(precomputed, k, lanes, duration) ==
    IF k > Len(precomputed) THEN <<>>
    ELSE LET item == precomputed[k]
             fits == {z \in 1..Len(lanes) : FitsLastSpan(item, lanes[z], duration)}
             z    == IF fits = {} THEN Len(lanes) + 1
                     ELSE CHOOSE y \in fits : \A x \in fits : y <= x
             span == <<item.start_x, item.end_x>>
             lanes1 == IF z > Len(lanes) THEN Append(lanes, <<span>>)
                       ELSE [lanes EXCEPT ![z] = Append(lanes[z], span)]
         IN  <<z>> \o ZonesByLastSpan(precomputed, k + 1, lanes1, duration)

\* C28: the zones the code assigns, testing a segment against every span of a
\* lane, are the zones the test against the lane's last span alone gives.
C28_LastSpanTestEquivalent ==
    (Called /\ Assigned # {}) =>
        LET p == CallPacked
        IN  p.zones = ZonesByLastSpan(p.precomputed, 1, <<>>, CallDuration)

\* C28 witness: a lane holds two segments, and a segment that starts no
\* earlier than both was tested against that lane and put in a later one
C28_Witness ==
    \E i \in Assigned : \E j \in Assigned : \E k \in Assigned :
        /\ SameLane(i, j)
        /\ zone_assignments[k].zone > zone_assignments[i].zone
        /\ annotations[k].start_time >= annotations[i].start_time
        /\ annotations[k].start_time >= annotations[j].start_time

----------------------------------------------------------------------------
(* Claims about the notes database *)

\* C29: right after save_note(s, c), whatever row get_note(s) fetches has the
\* content c, and the call has left as many note rows for s as there were
\* before, or one if there was none.
C29_ReadYourNote ==
    db_last.op = "save_note" =>
        LET rows == NoteRowsOf(db_notes, db_sentences, db_last.sentence_text)
        IN  /\ rows # {}
            /\ \A n \in rows : n.note_text = db_last.content
            /\ Cardinality(rows) = Max(1, db_last.rows_before)

----------------------------------------------------------------------------
(* Claims about the sidebar manager *)

\* the sidebars that are no longer (or not) in active_sidebars
RemovedSidebars ==
    {i \in DOMAIN sidebars : \A s \in DOMAIN active_sidebars : active_sidebars[s] # i}

\* C30: active_sidebars has at most one entry; every sidebar removed from it
\* has had cleanup() run, so that its timer is stopped and its client told to
\* stop; and no update of a removed sidebar has been processed.
C30_OneSidebarAndCleanup ==
    /\ Cardinality(DOMAIN active_sidebars) <= 1
    /\ \A i \in RemovedSidebars :
          /\ sidebars[i].cleaned
          /\ ~sidebars[i].update_timer
          /\ sidebars[i].stop_event
          /\ ~sidebars[i].processed_closed

====
